---- MODULE Spec2Model ----
(***************************************************************************)
(* Pebbles: an append-only event log (events.jsonl) projected into a       *)
(* disposable SQLite cache (pebbles.db).                                   *)
(*                                                                         *)
(* Representation.                                                         *)
(*   - An issue id is a sequence of integers: <<3>> is a plain id, and     *)
(*     Append(p, n) is the text p + "." + n. The component -1 stands for a *)
(*     blank character, so <<>> is "" and <<-1>> is " ".                   *)
(*   - A timestamp string is an integer. Values <= 0 do not parse as       *)
(*     RFC3339 (0 is the empty string). The values 2k-1 and 2k are two     *)
(*     spellings of the instant k: 2k-1 is the UTC spelling NowTimestamp   *)
(*     writes, 2k the same instant written with another zone offset.       *)
(*   - A payload is a function from a subset of the payload keys to values.*)
(*   - The cache is a record of the three tables plus whether the deps     *)
(*     table has the dep_type column.                                      *)
(***************************************************************************)
EXTENDS Integers, Sequences, FiniteSets, TLC

(***************************************************************************)
(* Bounds of the model.                                                    *)
(***************************************************************************)
MaxLog == 3
MaxClock == 3
MaxOps == 3
MaxBranchOps == 1
MaxDeps == 2
MaxHash == 5
MaxIssues == 2

(***************************************************************************)
(* types.go: event types, dependency types, statuses.                      *)
(***************************************************************************)
EventTypeCreate == "create"
EventTypeStatus == "status_update"
EventTypeUpdate == "update"
EventTypeClose == "close"
EventTypeComment == "comment"
EventTypeRename == "rename"
EventTypeDepAdd == "dep_add"
EventTypeDepRemove == "dep_rm"

DepTypeBlocks == "blocks"
DepTypeParentChild == "parent-child"

StatusOpen == "open"
StatusInProgress == "in_progress"
StatusClosed == "closed"

DefaultPriority == 2

NoErr == "nil"
EmptyID == <<>>
EmptyPayload == [k \in {} |-> ""]
Blank == -1

(***************************************************************************)
(* Payload access: indexing a Go map gives "" for a missing key.           *)
(***************************************************************************)
Has(p, k) == k \in DOMAIN p
GetStr(p, k) == IF k \in DOMAIN p THEN p[k] ELSE ""
GetID(p, k) == IF k \in DOMAIN p THEN p[k] ELSE EmptyID

(***************************************************************************)
(* Timestamps: time.Parse(time.RFC3339Nano, s) and NowTimestamp.           *)
(***************************************************************************)
ParseOK(ts) == ts >= 1
ParseTime(ts) == (ts + 1) \div 2
NowTimestamp(c) == 2 * c - 1

(***************************************************************************)
(* strings.TrimSpace on an id.                                             *)
(***************************************************************************)
RECURSIVE TrimLeft(_)
TrimLeft(id) ==
  IF id # <<>> /\ Head(id) = Blank THEN TrimLeft(Tail(id)) ELSE id

RECURSIVE TrimRight(_)
TrimRight(id) ==
  IF id # <<>> /\ id[Len(id)] = Blank
  THEN TrimRight(SubSeq(id, 1, Len(id) - 1))
  ELSE id

TrimSpace(id) == TrimRight(TrimLeft(id))

(***************************************************************************)
(* format.go: ParsePriority / parsePriority over the priority strings the  *)
(* model uses.                                                             *)
(***************************************************************************)
\* The characters of the priority strings the model uses: '0'..'9' are
\* 48..57, 'P' is 80, lower-case letters are 97..122, '+' is 43, '-' is 45
\* and a space is Blank.
Spelling ==
  ("" :> <<>>) @@ (" " :> <<Blank>>) @@
  ("0" :> <<48>>) @@ ("1" :> <<49>>) @@ ("2" :> <<50>>) @@ ("3" :> <<51>>) @@
  ("4" :> <<52>>) @@ ("5" :> <<53>>) @@ ("6" :> <<54>>) @@ ("7" :> <<55>>) @@
  ("8" :> <<56>>) @@ ("9" :> <<57>>) @@
  ("P0" :> <<80, 48>>) @@ ("P1" :> <<80, 49>>) @@ ("P2" :> <<80, 50>>) @@
  ("P3" :> <<80, 51>>) @@ ("P4" :> <<80, 52>>) @@ ("P9" :> <<80, 57>>) @@
  ("p0" :> <<112, 48>>) @@ (" 1 " :> <<Blank, 49, Blank>>) @@
  ("-1" :> <<45, 49>>) @@ ("+3" :> <<43, 51>>) @@ ("10" :> <<49, 48>>) @@
  ("abc" :> <<97, 98, 99>>)

ToUpper(chars) ==
  [i \in DOMAIN chars |-> IF chars[i] \in 97..122 THEN chars[i] - 32 ELSE chars[i]]

\* strings.TrimPrefix(trimmed, "P")
TrimPrefix(chars) == IF chars # <<>> /\ Head(chars) = 80 THEN Tail(chars) ELSE chars

\* strconv.Atoi: an optional sign, then one or more decimal digits.
RECURSIVE DigitsValue(_, _)
DigitsValue(chars, acc) ==
  IF chars = <<>> THEN acc ELSE DigitsValue(Tail(chars), 10 * acc + (Head(chars) - 48))

Unsigned(chars) == IF chars # <<>> /\ Head(chars) \in {43, 45} THEN Tail(chars) ELSE chars

Atoi(chars) ==
  IF Unsigned(chars) = <<>> \/ \E i \in DOMAIN Unsigned(chars) : Unsigned(chars)[i] \notin 48..57
  THEN [value |-> 0, err |-> "invalid syntax"]
  ELSE [value |-> (IF Head(chars) = 45 THEN -1 ELSE 1) * DigitsValue(Unsigned(chars), 0),
        err |-> NoErr]

\* The result once the trimmed, upper-cased input was handed to Atoi.
priorityOf(trimmed, parsed, inRange) ==
  IF trimmed = <<>> THEN [value |-> DefaultPriority, err |-> NoErr]
  ELSE IF parsed.err # NoErr THEN [value |-> 0, err |-> "invalid priority"]
  ELSE IF ~inRange THEN [value |-> 0, err |-> "priority must be P0-P4"]
  ELSE [value |-> parsed.value, err |-> NoErr]

\* A variant without the check value < 0 || value > 4.
ParsePriorityAnyValue(input) ==
  priorityOf(TrimSpace(ToUpper(Spelling[input])),
             Atoi(TrimPrefix(TrimSpace(ToUpper(Spelling[input])))), TRUE)

ParsePriority(input) ==
  priorityOf(TrimSpace(ToUpper(Spelling[input])),
             Atoi(TrimPrefix(TrimSpace(ToUpper(Spelling[input])))),
             Atoi(TrimPrefix(TrimSpace(ToUpper(Spelling[input])))).value \in 0..4)

parsePriority(input) ==
  LET r == ParsePriority(input)
  IN IF r.err # NoErr THEN DefaultPriority ELSE r.value

\* hierarchy.go: NormalizeDepType trims, and defaults to blocks.
NormalizeDepType(depType) == IF depType \in {"", " "} THEN DepTypeBlocks ELSE depType

(***************************************************************************)
(* cache.go: sortEvents. sort.SliceStable on at most 20 elements is an     *)
(* insertion sort driven by the comparator below.                          *)
(***************************************************************************)
Indexed(events) == [i \in 1..Len(events) |-> [Event |-> events[i], Index |-> i]]

\* A comparator that never looks at the timestamps.
lessIndexOnly(a, b) == a.Index < b.Index

\* cache_test.go, TestSortEventsOrdersRenameBeforeDeps: the order of types
\* expected among events of one timestamp.
TypeRank(type) ==
  CASE type = EventTypeCreate -> 1
    [] type = EventTypeRename -> 2
    [] type = EventTypeDepAdd -> 3
    [] type = EventTypeStatus -> 4
    [] type = EventTypeUpdate -> 5
    [] type = EventTypeClose -> 6
    [] OTHER -> 7

\* The comparator that test expects: type before position among ties.
lessByType(a, b) ==
  IF /\ ParseOK(a.Event.Timestamp)
     /\ ParseOK(b.Event.Timestamp)
     /\ ParseTime(a.Event.Timestamp) # ParseTime(b.Event.Timestamp)
  THEN ParseTime(a.Event.Timestamp) < ParseTime(b.Event.Timestamp)
  ELSE IF TypeRank(a.Event.Type) # TypeRank(b.Event.Type)
       THEN TypeRank(a.Event.Type) < TypeRank(b.Event.Type)
       ELSE a.Index < b.Index

less(a, b) ==
  IF /\ ParseOK(a.Event.Timestamp)
     /\ ParseOK(b.Event.Timestamp)
     /\ ParseTime(a.Event.Timestamp) # ParseTime(b.Event.Timestamp)
  THEN ParseTime(a.Event.Timestamp) < ParseTime(b.Event.Timestamp)
  ELSE a.Index < b.Index

Swap(s, i, j) == [s EXCEPT ![i] = s[j], ![j] = s[i]]

RECURSIVE SiftDown(_, _)
SiftDown(s, j) ==
  IF j > 1 /\ less(s[j], s[j - 1]) THEN SiftDown(Swap(s, j, j - 1), j - 1) ELSE s

RECURSIVE insertionSort(_, _)
insertionSort(s, i) ==
  IF i > Len(s) THEN s ELSE insertionSort(SiftDown(s, i), i + 1)

\* The original positions of the events, in the order the sort leaves them.
sortOrder(events) ==
  LET sorted == insertionSort(Indexed(events), 2)
  IN [i \in 1..Len(events) |-> sorted[i].Index]

sortEvents(events) ==
  LET sorted == insertionSort(Indexed(events), 2)
  IN [i \in 1..Len(events) |-> sorted[i].Event]

(***************************************************************************)
(* db_apply.go: the cache tables.                                          *)
(*   issues  : id -> row            (PRIMARY KEY id)                       *)
(*   deps    : set of <<issue_id, depends_on_id, dep_type>> (PRIMARY KEY)  *)
(*   renames : old_id -> new_id     (PRIMARY KEY old_id)                   *)
(***************************************************************************)
EmptyIssues == [i \in {} |-> 0]
EmptyRenames == [i \in {} |-> 0]

EmptyTables == [issues |-> EmptyIssues, deps |-> {}, renames |-> EmptyRenames]

\* A reset that forgets DROP TABLE IF EXISTS issues.
keepIssuesTable(db) == [issues |-> db.issues, deps |-> {}, renames |-> EmptyRenames]

\* resetSchema followed by ensureSchema: every table dropped and recreated.
resetSchema(db) == EmptyTables

Ok(db) == [db |-> db, err |-> NoErr]
Fail(db, msg) == [db |-> db, err |-> msg]

\* Adding or replacing one binding of a table keyed by id.
Put(f, k, v) == [x \in DOMAIN f \cup {k} |-> IF x = k THEN v ELSE f[x]]
Drop(f, k) == [x \in DOMAIN f \ {k} |-> f[x]]

(***************************************************************************)
(* renames.go                                                              *)
(***************************************************************************)
lookupRename(db, id) == IF id \in DOMAIN db.renames THEN db.renames[id] ELSE EmptyID

\* A variant that follows one mapping and stops.
FollowRenamesOnce(db, current, visited) ==
  IF lookupRename(db, current) = EmptyID THEN [id |-> current, err |-> NoErr]
  ELSE [id |-> lookupRename(db, current), err |-> NoErr]

RECURSIVE FollowRenames(_, _, _)
FollowRenames(db, current, visited) ==
  IF current \in visited THEN [id |-> EmptyID, err |-> "rename cycle detected"]
  ELSE LET next == lookupRename(db, current)
       IN IF next = EmptyID THEN [id |-> current, err |-> NoErr]
          ELSE FollowRenames(db, next, visited \cup {current})

resolveIssueID(db, id) ==
  LET current == TrimSpace(id)
  IN IF current = EmptyID THEN [id |-> EmptyID, err |-> "issue id is required"]
     ELSE FollowRenames(db, current, {})

issueExists(db, id) == id \in DOMAIN db.issues

(***************************************************************************)
(* db_apply.go: one operator per apply function. Each returns the tables   *)
(* after the statements that ran and the error (NoErr for nil). Statements *)
(* autocommit one by one, so a failure keeps what earlier statements wrote.*)
(***************************************************************************)
applyCreate(db, event) ==
  LET title == GetStr(event.Payload, "title")
      issueType == IF GetStr(event.Payload, "type") = "" THEN "task"
                   ELSE GetStr(event.Payload, "type")
      row == [title |-> title,
              description |-> GetStr(event.Payload, "description"),
              issue_type |-> issueType,
              status |-> StatusOpen,
              priority |-> parsePriority(GetStr(event.Payload, "priority")),
              created_at |-> event.Timestamp,
              updated_at |-> event.Timestamp,
              closed_at |-> 0]
  IN IF title = "" THEN Fail(db, "create event missing title")
     ELSE IF event.IssueID \in DOMAIN db.issues THEN Fail(db, "insert issue")
     ELSE Ok([db EXCEPT !.issues = Put(db.issues, event.IssueID, row)])

\* UPDATE issues SET id = ?, updated_at = ? WHERE id = ?
updateIssueID(db, oldID, newID, timestamp) ==
  IF oldID \notin DOMAIN db.issues THEN Fail(db, "rename for missing issue")
  ELSE IF newID # oldID /\ newID \in DOMAIN db.issues THEN Fail(db, "rename issue")
  ELSE Ok([db EXCEPT !.issues =
             Put(Drop(db.issues, oldID), newID,
                 [db.issues[oldID] EXCEPT !.updated_at = timestamp])])

\* A variant that leaves the dependency rows as they are.
updateDepsForRenameKeeps(db, oldID, newID) == Ok(db)

\* Two UPDATE statements over deps; a statement that would break the
\* primary key fails and changes nothing.
updateDepsForRename(db, oldID, newID) ==
  LET first == {<<IF d[1] = oldID THEN newID ELSE d[1], d[2], d[3]>> : d \in db.deps}
      second == {<<d[1], IF d[2] = oldID THEN newID ELSE d[2], d[3]>> : d \in first}
  IN IF Cardinality(first) # Cardinality(db.deps)
     THEN Fail(db, "rename dependency issue_id")
     ELSE IF Cardinality(second) # Cardinality(first)
     THEN Fail([db EXCEPT !.deps = first], "rename dependency depends_on_id")
     ELSE Ok([db EXCEPT !.deps = second])

\* INSERT OR REPLACE INTO renames
upsertRename(db, oldID, newID) ==
  Ok([db EXCEPT !.renames = Put(db.renames, oldID, newID)])

\* A variant that records the rename without checking source or target.
applyRenameUnchecked(db, event) ==
  LET newID == GetID(event.Payload, "new_id")
      resolvedOld == resolveIssueID(db, event.IssueID)
      moved == IF resolvedOld.id \in DOMAIN db.issues /\ newID \notin DOMAIN db.issues
               THEN [db EXCEPT !.issues =
                       Put(Drop(db.issues, resolvedOld.id), newID,
                           db.issues[resolvedOld.id])]
               ELSE db
  IN IF newID = EmptyID THEN Fail(db, "rename event missing new_id")
     ELSE IF resolvedOld.err # NoErr THEN Fail(db, resolvedOld.err)
     ELSE upsertRename(moved, resolvedOld.id, newID)

\* A variant that accepts a target that is the old id of a rename.
applyRenameMappedTarget(db, event) ==
  LET newID == GetID(event.Payload, "new_id")
      resolvedOld == resolveIssueID(db, event.IssueID)
      resolvedNew == resolveIssueID(db, newID)
  IN IF newID = EmptyID THEN Fail(db, "rename event missing new_id")
     ELSE IF resolvedOld.err # NoErr THEN Fail(db, resolvedOld.err)
     ELSE IF resolvedNew.err # NoErr THEN Fail(db, resolvedNew.err)
     ELSE IF resolvedOld.id = newID THEN Fail(db, "rename target matches current id")
     ELSE IF ~issueExists(db, resolvedOld.id) THEN Fail(db, "missing issue")
     ELSE IF issueExists(db, newID) THEN Fail(db, "issue already exists")
     ELSE LET r1 == updateIssueID(db, resolvedOld.id, newID, event.Timestamp)
              r2 == updateDepsForRename(r1.db, resolvedOld.id, newID)
          IN IF r1.err # NoErr THEN r1
             ELSE IF r2.err # NoErr THEN r2
             ELSE upsertRename(r2.db, resolvedOld.id, newID)

applyRename(db, event) ==
  LET newID == GetID(event.Payload, "new_id")
      resolvedOld == resolveIssueID(db, event.IssueID)
      resolvedNew == resolveIssueID(db, newID)
  IN IF newID = EmptyID THEN Fail(db, "rename event missing new_id")
     ELSE IF resolvedOld.err # NoErr THEN Fail(db, resolvedOld.err)
     ELSE IF resolvedNew.err # NoErr THEN Fail(db, resolvedNew.err)
     ELSE IF resolvedNew.id # newID THEN Fail(db, "rename target already mapped")
     ELSE IF resolvedOld.id = newID THEN Fail(db, "rename target matches current id")
     ELSE IF ~issueExists(db, resolvedOld.id) THEN Fail(db, "missing issue")
     ELSE IF issueExists(db, newID) THEN Fail(db, "issue already exists")
     ELSE LET r1 == updateIssueID(db, resolvedOld.id, newID, event.Timestamp)
              r2 == updateDepsForRename(r1.db, resolvedOld.id, newID)
          IN IF r1.err # NoErr THEN r1
             ELSE IF r2.err # NoErr THEN r2
             ELSE upsertRename(r2.db, resolvedOld.id, newID)

\* A variant whose UPDATE never touches closed_at.
applyStatusKeepsClosedAt(db, event) ==
  LET status == GetStr(event.Payload, "status")
  IN IF status = "" THEN Fail(db, "status event missing status")
     ELSE IF event.IssueID \notin DOMAIN db.issues
     THEN Fail(db, "status update for missing issue")
     ELSE Ok([db EXCEPT !.issues[event.IssueID] =
                [@ EXCEPT !.status = status, !.updated_at = event.Timestamp]])

\* A variant whose UPDATE touching no row is not an error.
applyStatusNoRequireRow(db, event) ==
  LET status == GetStr(event.Payload, "status")
  IN IF status = "" THEN Fail(db, "status event missing status")
     ELSE IF event.IssueID \notin DOMAIN db.issues THEN Ok(db)
     ELSE Ok([db EXCEPT !.issues[event.IssueID] =
                [@ EXCEPT !.status = status, !.updated_at = event.Timestamp]])

\* requireRow: the UPDATE ... WHERE id = ? touched no row.
applyStatus(db, event) ==
  LET status == GetStr(event.Payload, "status")
  IN IF status = "" THEN Fail(db, "status event missing status")
     ELSE IF event.IssueID \notin DOMAIN db.issues
     THEN Fail(db, "status update for missing issue")
     ELSE IF status = StatusClosed
     THEN Ok([db EXCEPT !.issues[event.IssueID] =
                [@ EXCEPT !.status = status, !.updated_at = event.Timestamp]])
     ELSE Ok([db EXCEPT !.issues[event.IssueID] =
                [@ EXCEPT !.status = status, !.updated_at = event.Timestamp,
                          !.closed_at = 0]])

applyUpdate(db, event) ==
  LET p == event.Payload
      set1(row) == IF Has(p, "type") THEN [row EXCEPT !.issue_type = p["type"]] ELSE row
      set2(row) == IF Has(p, "description")
                   THEN [row EXCEPT !.description = p["description"]] ELSE row
      set3(row) == IF Has(p, "priority")
                   THEN [row EXCEPT !.priority = parsePriority(p["priority"])] ELSE row
  IN IF ~(Has(p, "type") \/ Has(p, "description") \/ Has(p, "priority"))
     THEN Fail(db, "update event missing fields")
     ELSE IF event.IssueID \notin DOMAIN db.issues
     THEN Fail(db, "update for missing issue")
     ELSE Ok([db EXCEPT !.issues[event.IssueID] =
                [set3(set2(set1(@))) EXCEPT !.updated_at = event.Timestamp]])

\* A variant that closes without recording when.
applyCloseStatusOnly(db, event) ==
  IF event.IssueID \notin DOMAIN db.issues THEN Fail(db, "close for missing issue")
  ELSE Ok([db EXCEPT !.issues[event.IssueID] =
             [@ EXCEPT !.status = StatusClosed, !.updated_at = event.Timestamp]])

applyClose(db, event) ==
  IF event.IssueID \notin DOMAIN db.issues THEN Fail(db, "close for missing issue")
  ELSE Ok([db EXCEPT !.issues[event.IssueID] =
             [@ EXCEPT !.status = StatusClosed, !.updated_at = event.Timestamp,
                       !.closed_at = event.Timestamp]])

\* A variant that touches updated_at of the issue commented on.
applyCommentTouches(db, event) ==
  IF GetStr(event.Payload, "body") \in {"", " "}
  THEN Fail(db, "comment event missing body")
  ELSE IF ~issueExists(db, event.IssueID) THEN Fail(db, "missing issue")
  ELSE Ok([db EXCEPT !.issues[event.IssueID] = [@ EXCEPT !.updated_at = event.Timestamp]])

\* strings.TrimSpace(body) = "" for the empty and the blank body.
applyComment(db, event) ==
  IF GetStr(event.Payload, "body") \in {"", " "}
  THEN Fail(db, "comment event missing body")
  ELSE IF ~issueExists(db, event.IssueID) THEN Fail(db, "missing issue")
  ELSE Ok(db)

\* A variant that inserts the row without looking for the two issues.
applyDepAddUnchecked(db, event) ==
  LET dependsOn == GetID(event.Payload, "depends_on")
      depType == NormalizeDepType(GetStr(event.Payload, "dep_type"))
  IN IF dependsOn = EmptyID THEN Fail(db, "dep_add event missing depends_on")
     ELSE Ok([db EXCEPT !.deps = @ \cup {<<event.IssueID, dependsOn, depType>>}])

applyDepAdd(db, event) ==
  LET dependsOn == GetID(event.Payload, "depends_on")
      depType == NormalizeDepType(GetStr(event.Payload, "dep_type"))
  IN IF dependsOn = EmptyID THEN Fail(db, "dep_add event missing depends_on")
     ELSE IF ~issueExists(db, event.IssueID) THEN Fail(db, "missing issue")
     ELSE IF ~issueExists(db, dependsOn) THEN Fail(db, "missing issue")
     ELSE Ok([db EXCEPT !.deps = @ \cup {<<event.IssueID, dependsOn, depType>>}])

\* A variant whose DELETE forgets dep_type = ?.
applyDepRemoveAnyType(db, event) ==
  LET dependsOn == GetID(event.Payload, "depends_on")
  IN IF dependsOn = EmptyID THEN Fail(db, "dep_rm event missing depends_on")
     ELSE IF ~issueExists(db, event.IssueID) THEN Fail(db, "missing issue")
     ELSE IF ~issueExists(db, dependsOn) THEN Fail(db, "missing issue")
     ELSE Ok([db EXCEPT !.deps =
                {d \in @ : ~(d[1] = event.IssueID /\ d[2] = dependsOn)}])

applyDepRemove(db, event) ==
  LET dependsOn == GetID(event.Payload, "depends_on")
      depType == NormalizeDepType(GetStr(event.Payload, "dep_type"))
  IN IF dependsOn = EmptyID THEN Fail(db, "dep_rm event missing depends_on")
     ELSE IF ~issueExists(db, event.IssueID) THEN Fail(db, "missing issue")
     ELSE IF ~issueExists(db, dependsOn) THEN Fail(db, "missing issue")
     ELSE Ok([db EXCEPT !.deps = @ \ {<<event.IssueID, dependsOn, depType>>}])

\* resolveEventIssueID: the event with its IssueID resolved, or the error.
resolveEventIssueID(db, event) ==
  LET r == resolveIssueID(db, event.IssueID)
  IN [event |-> [event EXCEPT !.IssueID = r.id], err |-> r.err]

resolveEventDependencyIDs(db, event) ==
  LET r1 == resolveIssueID(db, event.IssueID)
      dependsOn == GetID(event.Payload, "depends_on")
      depType == NormalizeDepType(GetStr(event.Payload, "dep_type"))
      r2 == resolveIssueID(db, dependsOn)
  IN IF r1.err # NoErr THEN [event |-> event, err |-> r1.err]
     ELSE IF dependsOn = EmptyID
     THEN [event |-> event, err |-> "dependency event missing depends_on"]
     ELSE IF r2.err # NoErr THEN [event |-> event, err |-> r2.err]
     ELSE [event |-> [event EXCEPT !.IssueID = r1.id,
                                   !.Payload = [depends_on |-> r2.id,
                                                dep_type |-> depType]],
           err |-> NoErr]

\* A variant whose switch has no default case.
applyEventSkipsUnknown(db, event) ==
  LET one == resolveEventIssueID(db, event)
      two == resolveEventDependencyIDs(db, event)
  IN CASE event.Type = EventTypeCreate -> applyCreate(db, event)
       [] event.Type = EventTypeRename -> applyRename(db, event)
       [] event.Type = EventTypeStatus ->
            IF one.err # NoErr THEN Fail(db, one.err) ELSE applyStatus(db, one.event)
       [] event.Type = EventTypeUpdate ->
            IF one.err # NoErr THEN Fail(db, one.err) ELSE applyUpdate(db, one.event)
       [] event.Type = EventTypeClose ->
            IF one.err # NoErr THEN Fail(db, one.err) ELSE applyClose(db, one.event)
       [] event.Type = EventTypeComment ->
            IF one.err # NoErr THEN Fail(db, one.err) ELSE applyComment(db, one.event)
       [] event.Type = EventTypeDepAdd ->
            IF two.err # NoErr THEN Fail(db, two.err) ELSE applyDepAdd(db, two.event)
       [] event.Type = EventTypeDepRemove ->
            IF two.err # NoErr THEN Fail(db, two.err) ELSE applyDepRemove(db, two.event)
       [] OTHER -> Ok(db)

applyEvent(db, event) ==
  LET one == resolveEventIssueID(db, event)
      two == resolveEventDependencyIDs(db, event)
  IN CASE event.Type = EventTypeCreate -> applyCreate(db, event)
       [] event.Type = EventTypeRename -> applyRename(db, event)
       [] event.Type = EventTypeStatus ->
            IF one.err # NoErr THEN Fail(db, one.err) ELSE applyStatus(db, one.event)
       [] event.Type = EventTypeUpdate ->
            IF one.err # NoErr THEN Fail(db, one.err) ELSE applyUpdate(db, one.event)
       [] event.Type = EventTypeClose ->
            IF one.err # NoErr THEN Fail(db, one.err) ELSE applyClose(db, one.event)
       [] event.Type = EventTypeComment ->
            IF one.err # NoErr THEN Fail(db, one.err) ELSE applyComment(db, one.event)
       [] event.Type = EventTypeDepAdd ->
            IF two.err # NoErr THEN Fail(db, two.err) ELSE applyDepAdd(db, two.event)
       [] event.Type = EventTypeDepRemove ->
            IF two.err # NoErr THEN Fail(db, two.err) ELSE applyDepRemove(db, two.event)
       [] OTHER -> Fail(db, "unknown event type")

\* applyEvents: replay in order, stopping at the first error. `at` is the
\* 1-based position of the failing event (0 when none failed).
RECURSIVE applyFrom(_, _, _)
\* The loop body after applyEvent returned r for the event at position i.
applyNext(r, events, i) ==
  IF r.err # NoErr THEN [db |-> r.db, err |-> r.err, at |-> i]
  ELSE applyFrom(r.db, events, i + 1)

applyFrom(db, events, i) ==
  IF i > Len(events) THEN [db |-> db, err |-> NoErr, at |-> 0]
  ELSE applyNext(applyEvent(db, events[i]), events, i)

applyEvents(db, events) == applyFrom(db, events, 1)

(***************************************************************************)
(* event_build.go: the event constructors.                                 *)
(***************************************************************************)
Event(type, timestamp, issueID, payload) ==
  [Type |-> type, Timestamp |-> timestamp, IssueID |-> issueID, Payload |-> payload]

\* fmt.Sprintf("%d", n) for the one-digit numbers.
FormatInt(n) == <<"0", "1", "2", "3", "4", "5", "6", "7", "8", "9">>[n + 1]

NewCreateEvent(issueID, title, description, issueType, timestamp, priority) ==
  Event(EventTypeCreate, timestamp, issueID,
        [title |-> title, description |-> description, type |-> issueType,
         priority |-> FormatInt(priority)])

NewStatusEvent(issueID, status, timestamp) ==
  Event(EventTypeStatus, timestamp, issueID, [status |-> status])

NewUpdateEvent(issueID, timestamp, payload) ==
  Event(EventTypeUpdate, timestamp, issueID, payload)

NewCloseEvent(issueID, timestamp) ==
  Event(EventTypeClose, timestamp, issueID, EmptyPayload)

NewCommentEvent(issueID, body, timestamp) ==
  Event(EventTypeComment, timestamp, issueID, [body |-> body])

NewRenameEvent(issueID, newIssueID, timestamp) ==
  Event(EventTypeRename, timestamp, issueID, [new_id |-> newIssueID])

NewDepAddEvent(issueID, dependsOn, depType, timestamp) ==
  Event(EventTypeDepAdd, timestamp, issueID,
        [depends_on |-> dependsOn, dep_type |-> NormalizeDepType(depType)])

NewDepRemoveEvent(issueID, dependsOn, depType, timestamp) ==
  Event(EventTypeDepRemove, timestamp, issueID,
        [depends_on |-> dependsOn, dep_type |-> NormalizeDepType(depType)])

(***************************************************************************)
(* events.go: the lines of events.jsonl. A line is the JSON of an event,   *)
(* an empty line, a line of blanks, or text that is not JSON.              *)
(***************************************************************************)
NullEvent == Event("", 0, EmptyID, EmptyPayload)

Marshal(event) == [kind |-> "json", event |-> event]
EmptyLine == [kind |-> "empty", event |-> NullEvent]
SpaceLine == [kind |-> "space", event |-> NullEvent]
BadLine == [kind |-> "bad", event |-> NullEvent]

\* readEvents: skip lines of length 0, fail on the first line that is not JSON.
RECURSIVE readFrom(_, _, _)
readFrom(lines, i, acc) ==
  IF i > Len(lines) THEN [events |-> acc, err |-> NoErr]
  ELSE IF lines[i].kind = "empty" THEN readFrom(lines, i + 1, acc)
  ELSE IF lines[i].kind # "json" THEN [events |-> <<>>, err |-> "parse event"]
  ELSE readFrom(lines, i + 1, Append(acc, lines[i].event))

readEvents(lines) == readFrom(lines, 1, <<>>)

LoadEvents(lines) == readEvents(lines)

(***************************************************************************)
(* The file pebbles.db: whether it exists, whether its deps table has the  *)
(* dep_type column, its tables and its modification time.                  *)
(***************************************************************************)
NoCache == [exists |-> FALSE, depType |-> FALSE, tables |-> EmptyTables, mtime |-> 0]

\* cache.go: needsRebuild. ModTime().After is a strict comparison.
needsRebuild(logMtime, c) ==
  IF ~c.exists THEN TRUE ELSE logMtime > c.mtime

needsSchemaUpdate(c) == ~c.depType

\* cache.go: RebuildCache run to completion at time `now`. `at` is the
\* position of the failing event in replay order, `order` the replay order.
\* The cache and the error once applyEvents returned r.
replayed(r, order, now) ==
  [cache |-> [exists |-> TRUE, depType |-> TRUE, tables |-> r.db, mtime |-> now],
   err |-> r.err, at |-> r.at, order |-> order]

\* RebuildCache after LoadEvents returned `loaded`.
rebuildLoaded(loaded, c, now) ==
  IF loaded.err # NoErr
  THEN [cache |-> c, err |-> loaded.err, at |-> 0, order |-> <<>>]
  ELSE replayed(applyEvents(resetSchema(c.tables), sortEvents(loaded.events)),
                sortOrder(loaded.events), now)

RebuildCache(lines, c, now) == rebuildLoaded(LoadEvents(lines), c, now)

\* cache.go: EnsureCache run to completion at time `now`.
EnsureCache(lines, logMtime, c, now) ==
  IF needsRebuild(logMtime, c) THEN RebuildCache(lines, c, now)
  ELSE IF needsSchemaUpdate(c) THEN RebuildCache(lines, c, now)
  ELSE [cache |-> c, err |-> NoErr, at |-> 0, order |-> <<>>]

\* The projection of a log: what a rebuild into a fresh cache computes.
Project(lines) == RebuildCache(lines, NoCache, 0)

(***************************************************************************)
(* db_query.go and child_ids.go: the reads the commands make before they   *)
(* write, on the tables EnsureCache left.                                  *)
(***************************************************************************)
\* GetIssue: the id of the row found, or the error.
GetIssue(db, id) ==
  LET r == resolveIssueID(db, id)
  IN IF r.err # NoErr THEN r
     ELSE IF ~issueExists(db, r.id) THEN [id |-> EmptyID, err |-> "no rows"]
     ELSE r

\* ORDER BY i.id compares the ids as text, byte by byte: the characters of
\* an id are the decimal digits of its components, '.' between them (46,
\* below every digit) and ' ' for a blank (32).
RECURSIVE Digits(_)
Digits(n) == IF n < 10 THEN <<48 + n>> ELSE Digits(n \div 10) \o <<48 + (n % 10)>>

\* The characters of one component of an id. A component below Blank is a
\* number spelled with a leading zero: ZeroPadded(1) is the text "01".
ZeroPadded(n) == 0 - (n + 1)

ComponentChars(c) ==
  IF c = Blank THEN <<32>>
  ELSE IF c < Blank THEN <<48>> \o Digits(0 - c - 1)
  ELSE Digits(c)

RECURSIVE IDBytes(_)
IDBytes(id) ==
  IF id = <<>> THEN <<>>
  ELSE ComponentChars(Head(id))
       \o (IF Len(id) > 1 THEN <<46>> ELSE <<>>) \o IDBytes(Tail(id))

RECURSIVE BytesLess(_, _)
BytesLess(a, b) ==
  IF b = <<>> THEN FALSE
  ELSE IF a = <<>> THEN TRUE
  ELSE IF Head(a) # Head(b) THEN Head(a) < Head(b)
  ELSE BytesLess(Tail(a), Tail(b))

IDLess(a, b) == BytesLess(IDBytes(a), IDBytes(b))

RECURSIVE OrderByID(_)
OrderByID(ids) ==
  IF ids = {} THEN <<>>
  ELSE LET least == CHOOSE x \in ids : \A y \in ids \ {x} : IDLess(x, y)
       IN <<least>> \o OrderByID(ids \ {least})

\* A variant whose subquery forgets d.dep_type = ?.
ListReadyIssuesAnyDepType(db) ==
  OrderByID({i \in DOMAIN db.issues :
               /\ db.issues[i].status # StatusClosed
               /\ ~\E d \in db.deps :
                     /\ d[1] = i
                     /\ d[2] \in DOMAIN db.issues
                     /\ db.issues[d[2]].status # StatusClosed})

\* db_query.go: ListReadyIssues, the ids of the rows the query returns.
ListReadyIssues(db) ==
  OrderByID({i \in DOMAIN db.issues :
               /\ db.issues[i].status # StatusClosed
               /\ ~\E d \in db.deps :
                     /\ d[1] = i
                     /\ d[3] = DepTypeBlocks
                     /\ d[2] \in DOMAIN db.issues
                     /\ db.issues[d[2]].status # StatusClosed})

\* A variant that compares the id as the event spells it.
commentFromEventUnresolved(db, resolvedID, event) ==
  IF resolveIssueID(db, event.IssueID).err # NoErr
  THEN [comment |-> <<>>, err |-> resolveIssueID(db, event.IssueID).err]
  ELSE IF event.IssueID # resolvedID
  THEN [comment |-> <<>>, err |-> NoErr]
  ELSE IF GetStr(event.Payload, "body") = ""
  THEN [comment |-> <<>>, err |-> "comment event missing body"]
  ELSE [comment |-> <<[IssueID |-> resolveIssueID(db, event.IssueID).id,
                       Body |-> GetStr(event.Payload, "body"),
                       Timestamp |-> event.Timestamp]>>,
        err |-> NoErr]

\* comments.go: commentFromEvent, the comment (none when the event is for
\* another issue) or the error.
commentFromEvent(db, resolvedID, event) ==
  IF resolveIssueID(db, event.IssueID).err # NoErr
  THEN [comment |-> <<>>, err |-> resolveIssueID(db, event.IssueID).err]
  ELSE IF resolveIssueID(db, event.IssueID).id # resolvedID
  THEN [comment |-> <<>>, err |-> NoErr]
  ELSE IF GetStr(event.Payload, "body") = ""
  THEN [comment |-> <<>>, err |-> "comment event missing body"]
  ELSE [comment |-> <<[IssueID |-> resolveIssueID(db, event.IssueID).id,
                       Body |-> GetStr(event.Payload, "body"),
                       Timestamp |-> event.Timestamp]>>,
        err |-> NoErr]

\* ListIssueComments: the loop over the events of the log.
RECURSIVE commentsFrom(_, _, _, _)
commentsNext(db, resolvedID, events, comments, got) ==
  IF got.err # NoErr THEN [comments |-> <<>>, err |-> got.err]
  ELSE commentsFrom(db, resolvedID, Tail(events), comments \o got.comment)

commentsFrom(db, resolvedID, events, comments) ==
  IF events = <<>> THEN [comments |-> comments, err |-> NoErr]
  ELSE IF Head(events).Type # EventTypeComment
  THEN commentsFrom(db, resolvedID, Tail(events), comments)
  ELSE commentsNext(db, resolvedID, events, comments,
                    commentFromEvent(db, resolvedID, Head(events)))

\* ListIssueComments, after EnsureCache.
ListIssueComments(db, lines, id) ==
  IF resolveIssueID(db, id).err # NoErr
  THEN [comments |-> <<>>, err |-> resolveIssueID(db, id).err]
  ELSE IF LoadEvents(lines).err # NoErr
  THEN [comments |-> <<>>, err |-> LoadEvents(lines).err]
  ELSE commentsFrom(db, resolveIssueID(db, id).id, LoadEvents(lines).events, <<>>)

\* db_query.go: getDeps, the ids the issue depends on with the type, in
\* the order of ORDER BY depends_on_id.
getDeps(db, id, depType) ==
  OrderByID({d[2] : d \in {x \in db.deps : x[1] = id /\ x[3] = NormalizeDepType(depType)}})

\* The zero DepNode.
NoNode == [id |-> EmptyID, deps |-> <<>>]

RECURSIVE buildDepTree(_, _, _), buildDepChildren(_, _, _)

\* A variant whose visited marks of one subtree are lost to the next.
appendChildForgets(db, st, child, rest) ==
  IF child.err # NoErr
  THEN [node |-> NoNode, visited |-> child.visited, err |-> child.err]
  ELSE buildDepChildren(db, [node |-> [st.node EXCEPT !.deps = Append(@, child.node)],
                             visited |-> st.visited, err |-> NoErr], rest)

\* buildDepTree: the body of the loop over the dependencies, once the
\* recursive call for one of them has returned `child`.
appendChild(db, st, child, rest) ==
  IF child.err # NoErr
  THEN [node |-> NoNode, visited |-> child.visited, err |-> child.err]
  ELSE buildDepChildren(db, [node |-> [st.node EXCEPT !.deps = Append(@, child.node)],
                             visited |-> child.visited, err |-> NoErr], rest)

buildDepChildren(db, st, deps) ==
  IF deps = <<>> THEN st
  ELSE appendChild(db, st, buildDepTree(db, Head(deps), st.visited), Tail(deps))

\* buildDepTree: the node of `id`, the visited map after the call, and the
\* error of getIssueByID for an id with no row.
buildDepTree(db, id, visited) ==
  IF id \notin DOMAIN db.issues
  THEN [node |-> NoNode, visited |-> visited, err |-> "get issue"]
  ELSE IF id \in visited
  THEN [node |-> [id |-> id, deps |-> <<>>], visited |-> visited, err |-> NoErr]
  ELSE buildDepChildren(db, [node |-> [id |-> id, deps |-> <<>>],
                             visited |-> visited \cup {id}, err |-> NoErr],
                        getDeps(db, id, DepTypeBlocks))

\* DependencyTree, after EnsureCache.
DependencyTree(db, id) ==
  IF resolveIssueID(db, id).err # NoErr
  THEN [node |-> NoNode, err |-> resolveIssueID(db, id).err]
  ELSE [node |-> buildDepTree(db, resolveIssueID(db, id).id, {}).node,
        err |-> buildDepTree(db, resolveIssueID(db, id).id, {}).err]

\* getDependents: the ids that depend on the issue with the type, in id
\* order.
getDependents(db, id, depType) ==
  OrderByID({d[1] : d \in {x \in db.deps : x[2] = id /\ x[3] = NormalizeDepType(depType)}})

\* hierarchy.go: collectSiblingIDs, the other children of the parents.
collectSiblingIDs(db, issueID, parentIDs) ==
  OrderByID(UNION {{d[1] : d \in {x \in db.deps : x[2] = parentIDs[i]
                                                    /\ x[3] = DepTypeParentChild}} :
                     i \in DOMAIN parentIDs} \ {issueID})

\* hierarchy.go: loadIssuesByID fails at the first id with no row.
loadIssuesByID(db, ids) ==
  IF \E i \in DOMAIN ids : ids[i] \notin DOMAIN db.issues THEN "get issue" ELSE NoErr

\* GetIssueHierarchy from the three queries on.
issueHierarchy(db, parentIDs, childIDs, siblingIDs) ==
  IF loadIssuesByID(db, parentIDs \o childIDs \o siblingIDs) # NoErr
  THEN [parents |-> <<>>, children |-> <<>>, siblings |-> <<>>,
        err |-> loadIssuesByID(db, parentIDs \o childIDs \o siblingIDs)]
  ELSE [parents |-> parentIDs, children |-> childIDs, siblings |-> siblingIDs,
        err |-> NoErr]

\* hierarchy.go: GetIssueHierarchy, after EnsureCache.
GetIssueHierarchy(db, id) ==
  IF resolveIssueID(db, id).err # NoErr
  THEN [parents |-> <<>>, children |-> <<>>, siblings |-> <<>>,
        err |-> resolveIssueID(db, id).err]
  ELSE issueHierarchy(db,
                      getDeps(db, resolveIssueID(db, id).id, DepTypeParentChild),
                      getDependents(db, resolveIssueID(db, id).id, DepTypeParentChild),
                      collectSiblingIDs(db, resolveIssueID(db, id).id,
                                        getDeps(db, resolveIssueID(db, id).id,
                                                DepTypeParentChild)))

\* db_query.go: listIssues, the ids in the order of ORDER BY id.
listIssues(db) == OrderByID(DOMAIN db.issues)

\* loadParentChildDeps: the children of a parent, sorted, and the set of
\* all child ends of parent-child rows.
childrenByParent(db, parent) ==
  OrderByID({d[1] : d \in {x \in db.deps : x[3] = DepTypeParentChild /\ x[2] = parent}})

childSet(db) == {d[1] : d \in {x \in db.deps : x[3] = DepTypeParentChild}}

\* buildIssueHierarchy: addIssue and its loop over the children. st holds
\* the items emitted so far and the visited set.
RECURSIVE addIssue(_, _, _, _), addChildren(_, _, _, _)
addIssue(db, st, id, depth) ==
  IF id \in st.visited THEN st
  ELSE IF id \notin DOMAIN db.issues THEN st
  ELSE addChildren(db, [items |-> Append(st.items, [id |-> id, depth |-> depth]),
                        visited |-> st.visited \cup {id}],
                   childrenByParent(db, id), depth + 1)

addChildren(db, st, children, depth) ==
  IF children = <<>> THEN st
  ELSE addChildren(db, addIssue(db, st, Head(children), depth), Tail(children), depth)

\* A variant of the first loop that does not skip the children.
RECURSIVE walkRootsAll(_, _, _)
walkRootsAll(db, st, order) ==
  IF order = <<>> THEN st
  ELSE walkRootsAll(db, addIssue(db, st, Head(order), 0), Tail(order))

\* The first loop: the issues that are no child, in order.
RECURSIVE walkRoots(_, _, _)
walkRoots(db, st, order) ==
  IF order = <<>> THEN st
  ELSE walkRoots(db, IF Head(order) \in childSet(db) THEN st
                     ELSE addIssue(db, st, Head(order), 0),
                 Tail(order))

\* A variant of the second loop that leaves the remaining issues out.
walkRestDrops(db, st, order) == st

\* The second loop: whatever the first has not visited, in order.
RECURSIVE walkRest(_, _, _)
walkRest(db, st, order) ==
  IF order = <<>> THEN st
  ELSE walkRest(db, IF Head(order) \in st.visited THEN st
                    ELSE addIssue(db, st, Head(order), 0),
                Tail(order))

buildIssueHierarchy(db) ==
  walkRest(db, walkRoots(db, [items |-> <<>>, visited |-> {}], listIssues(db)),
           listIssues(db)).items


IssueExists(db, id) ==
  LET r == resolveIssueID(db, id)
  IN [exists |-> r.err = NoErr /\ issueExists(db, r.id), err |-> r.err]

\* childID is parentID, a dot and a text that strconv.Atoi accepts.
HasParentChildSuffix(parentID, childID) ==
  /\ Len(childID) = Len(parentID) + 1
  /\ SubSeq(childID, 1, Len(parentID)) = parentID
  /\ Atoi(ComponentChars(childID[Len(childID)])).err = NoErr

\* The values Atoi gives the suffixes of the children of parentID.
loadChildSuffixes(db, parentID) ==
  {Atoi(ComponentChars(d[1][Len(d[1])])).value : d \in {x \in db.deps :
      /\ x[3] = DepTypeParentChild
      /\ x[2] = parentID
      /\ HasParentChildSuffix(parentID, x[1])
      /\ Atoi(ComponentChars(x[1][Len(x[1])])).value > 0}}

\* A variant that looks at the issues table only.
issueIDAvailableIgnoresRenames(db, id) ==
  [available |-> ~issueExists(db, id), err |-> NoErr]

issueIDAvailable(db, id) ==
  IF resolveIssueID(db, id).err # NoErr
  THEN [available |-> FALSE, err |-> resolveIssueID(db, id).err]
  ELSE [available |-> resolveIssueID(db, id).id = id /\ ~issueExists(db, id),
        err |-> NoErr]

\* The loop of NextChildIssueID from `suffix` on.
RECURSIVE nextChildFrom(_, _, _, _)
\* The loop body once issueIDAvailable returned `available` for the candidate.
nextChildChecked(db, resolvedParent, usedSuffixes, suffix, available) ==
  IF available.err # NoErr THEN [id |-> EmptyID, err |-> available.err]
  ELSE IF available.available
  THEN [id |-> Append(resolvedParent, suffix), err |-> NoErr]
  ELSE nextChildFrom(db, resolvedParent, usedSuffixes \cup {suffix}, suffix + 1)

nextChildFrom(db, resolvedParent, usedSuffixes, suffix) ==
  IF suffix \in usedSuffixes
  THEN nextChildFrom(db, resolvedParent, usedSuffixes, suffix + 1)
  ELSE nextChildChecked(db, resolvedParent, usedSuffixes, suffix,
                        issueIDAvailable(db, Append(resolvedParent, suffix)))

NextChildIssueID(db, parentID) ==
  IF resolveIssueID(db, parentID).err # NoErr THEN resolveIssueID(db, parentID)
  ELSE IF ~issueExists(db, resolveIssueID(db, parentID).id)
  THEN [id |-> EmptyID, err |-> "missing issue"]
  ELSE nextChildFrom(db, resolveIssueID(db, parentID).id,
                     loadChildSuffixes(db, resolveIssueID(db, parentID).id), 1)

defaultIssueIDSuffixLength == 3

\* issueIDFromHash: the id whose text is the first `length` characters of
\* the hash (a hash of decimal digits here, the prefix left out).
issueIDFromHash(hash, length) == <<DigitsValue(SubSeq(hash, 1, length), 0)>>

\* The ids the loop of GenerateUniqueIssueID tries, in its order.
HashCandidates(hash) ==
  [i \in 1..(Len(hash) - defaultIssueIDSuffixLength + 1) |->
     issueIDFromHash(hash, defaultIssueIDSuffixLength + i - 1)]

\* A variant whose loop ends one length before the full hash.
RECURSIVE GenerateUniqueIssueIDShort(_, _)
GenerateUniqueIssueIDShort(db, candidates) ==
  IF Len(candidates) <= 1 THEN [id |-> EmptyID, err |-> "issue id collision"]
  ELSE IF IssueExists(db, Head(candidates)).err # NoErr
  THEN [id |-> EmptyID, err |-> IssueExists(db, Head(candidates)).err]
  ELSE IF ~IssueExists(db, Head(candidates)).exists
  THEN [id |-> Head(candidates), err |-> NoErr]
  ELSE GenerateUniqueIssueIDShort(db, Tail(candidates))

\* id.go: GenerateUniqueIssueID. `candidates` are the ids cut from the hash
\* at growing lengths; exists is IssueExists, as runCreate passes it.
RECURSIVE GenerateUniqueIssueID(_, _)
GenerateUniqueIssueID(db, candidates) ==
  IF candidates = <<>> THEN [id |-> EmptyID, err |-> "issue id collision"]
  ELSE IF IssueExists(db, Head(candidates)).err # NoErr
  THEN [id |-> EmptyID, err |-> IssueExists(db, Head(candidates)).err]
  ELSE IF ~IssueExists(db, Head(candidates)).exists
  THEN [id |-> Head(candidates), err |-> NoErr]
  ELSE GenerateUniqueIssueID(db, Tail(candidates))

(***************************************************************************)
(* cmd/pb/main.go: what each mutating command appends, given the tables it *)
(* reads; `events` is empty when the command exits before writing.         *)
(***************************************************************************)
Exit(msg) == [events |-> <<>>, err |-> msg]
Appends(events) == [events |-> events, err |-> NoErr]

runCreate(db, candidates, title, priority, timestamp) ==
  LET parsed == ParsePriority(priority)
      made == GenerateUniqueIssueID(db, candidates)
  IN IF title \in {"", " "} THEN Exit("title is required")
     ELSE IF parsed.err # NoErr THEN Exit(parsed.err)
     ELSE IF made.err # NoErr THEN Exit(made.err)
     ELSE Appends(<<NewCreateEvent(made.id, title, "", "task", timestamp,
                                   parsed.value)>>)

\* main.go: optionalString, a flag value and whether the flag was given.
Unset == [set |-> FALSE, value |-> ""]
SetTo(value) == [set |-> TRUE, value |-> value]

\* The payload of the update event: the fields whose flags were given.
updatePayload(issueType, description, priority, parsed) ==
  [k \in (IF issueType.set THEN {"type"} ELSE {})
         \cup (IF description.set THEN {"description"} ELSE {})
         \cup (IF priority.set THEN {"priority"} ELSE {}) |->
     CASE k = "type" -> issueType.value
       [] k = "description" -> description.value
       [] OTHER -> FormatInt(parsed.value)]

\* The checks of the flags that runUpdate makes before it reads the cache.
updateFlagsError(status, issueType, description, priority) ==
  IF status \in {"", " "} /\ ~issueType.set /\ ~description.set /\ ~priority.set
  THEN "at least one field is required"
  ELSE IF issueType.set /\ issueType.value \in {"", " "} THEN "type cannot be empty"
  ELSE IF priority.set /\ priority.value \in {"", " "} THEN "priority cannot be empty"
  ELSE NoErr

\* pb update <id> with any of --status, --type, --description, --priority:
\* the events appended before the command exits or reaches RebuildCache.
runUpdate(db, id, status, issueType, description, priority, timestamp) ==
  LET found == GetIssue(db, id)
      parsed == ParsePriority(priority.value)
      first == IF status \in {"", " "} THEN <<>>
               ELSE <<NewStatusEvent(id, status, timestamp)>>
  IN IF updateFlagsError(status, issueType, description, priority) # NoErr
     THEN Exit(updateFlagsError(status, issueType, description, priority))
     ELSE IF found.err # NoErr THEN Exit(found.err)
     ELSE IF priority.set /\ parsed.err # NoErr
     THEN [events |-> first, err |-> parsed.err]
     ELSE IF DOMAIN updatePayload(issueType, description, priority, parsed) = {}
     THEN Appends(first)
     ELSE Appends(Append(first,
            NewUpdateEvent(id, timestamp,
                           updatePayload(issueType, description, priority, parsed))))

runClose(db, id, timestamp) ==
  LET found == GetIssue(db, id)
  IN IF found.err # NoErr THEN Exit(found.err)
     ELSE Appends(<<NewCloseEvent(id, timestamp)>>)

runComment(db, id, body, timestamp) ==
  LET found == GetIssue(db, id)
  IN IF body \in {"", " "} THEN Exit("comment body is required")
     ELSE IF found.err # NoErr THEN Exit(found.err)
     ELSE Appends(<<NewCommentEvent(id, body, timestamp)>>)

runRename(db, old, new, timestamp) ==
  LET oldID == TrimSpace(old)
      newID == TrimSpace(new)
      found == GetIssue(db, oldID)
      taken == IssueExists(db, newID)
  IN IF oldID = EmptyID \/ newID = EmptyID THEN Exit("rename requires non-empty ids")
     ELSE IF found.err # NoErr THEN Exit(found.err)
     ELSE IF taken.err # NoErr THEN Exit(taken.err)
     ELSE IF taken.exists THEN Exit("issue id already exists")
     ELSE Appends(<<NewRenameEvent(oldID, newID, timestamp)>>)

runDepAdd(db, issueID, dependsOn, depType, timestamp) ==
  LET issue == GetIssue(db, issueID)
      parent == GetIssue(db, dependsOn)
      child == NextChildIssueID(db, parent.id)
  IN IF issue.err # NoErr THEN Exit(issue.err)
     ELSE IF parent.err # NoErr THEN Exit(parent.err)
     ELSE IF depType = DepTypeParentChild /\ ~HasParentChildSuffix(parent.id, issue.id)
     THEN IF child.err # NoErr THEN Exit(child.err)
          ELSE Appends(<<NewRenameEvent(issue.id, child.id, timestamp),
                         NewDepAddEvent(child.id, parent.id, depType, timestamp)>>)
     ELSE Appends(<<NewDepAddEvent(issue.id, parent.id, depType, timestamp)>>)

runDepRemove(db, issueID, dependsOn, depType, timestamp) ==
  LET issue == GetIssue(db, issueID)
      parent == GetIssue(db, dependsOn)
  IN IF issue.err # NoErr THEN Exit(issue.err)
     ELSE IF parent.err # NoErr THEN Exit(parent.err)
     ELSE Appends(<<NewDepRemoveEvent(issueID, dependsOn, depType, timestamp)>>)

(***************************************************************************)
(* State.                                                                  *)
(*   log, logMtime : events.jsonl and its modification time                *)
(*   cache         : pebbles.db                                            *)
(*   clock         : the file system clock                                 *)
(*   pc            : what each running invocation is doing                 *)
(*   tree          : the working trees of the merge scenario; the foreign  *)
(*                   export and the summary of the import scenario         *)
(*   hist          : history of the run, read by the properties only       *)
(***************************************************************************)
VARIABLES log, logMtime, cache, clock, pc, tree, hist

vars == <<log, logMtime, cache, clock, pc, tree, hist>>

Idle == [op |-> "idle", step |-> "idle", events |-> <<>>, queue |-> <<>>,
         fd |-> 0, err |-> NoErr, seen |-> EmptyTables]

NoHist == [ran |-> FALSE, err |-> NoErr, at |-> 0, order |-> <<>>,
           written |-> <<>>, failed |-> FALSE, raced |-> "no", by |-> 0,
           overlap |-> FALSE, ops |-> 0]

NoTree == [phase |-> "none"]

(***************************************************************************)
(* The engine as concurrent invocations. Each invocation runs one engine   *)
(* operation; its file system calls are the steps.                         *)
(*   AppendEvent           : open, write                                   *)
(*   RebuildCache          : load (LoadEvents, sortEvents), reset          *)
(*                           (resetSchema, ensureSchema), apply            *)
(*   EnsureCache           : stat (needsRebuild, needsSchemaUpdate), then  *)
(*                           RebuildCache if needed                        *)
(*   ListIssues            : EnsureCache, read                             *)
(*   InitProject           : ensureEventsFile, EnsureCache                 *)
(*   ApplyBeadsImportPlan  : AppendEvent per planned event, RebuildCache   *)
(***************************************************************************)
Procs == {1, 2}

\* Where a write lands on a descriptor opened without O_APPEND.
WriteOffsetWithoutAppend(fileLen, fdOffset) == fdOffset

\* events.go: the file is opened O_APPEND, so each write lands at the end
\* of the file whatever the descriptor's own offset is.
WriteOffset(fileLen, fdOffset) == fileLen

\* One write call of one line at an offset counted in lines.
WriteAt(lines, offset, line) ==
  SubSeq(lines, 1, offset) \o <<line>> \o SubSeq(lines, offset + 2, Len(lines))

\* An ensureEventsFile that opens with O_TRUNC whether the file exists or not.
ensureEventsFileTruncating(exists, lines) == <<>>

\* project.go: ensureEventsFile on a log that exists leaves it alone; the
\* file is created empty only when it is missing.
ensureEventsFile(exists, lines) == IF exists THEN lines ELSE <<>>

\* What callers append: events stamped with the current time.
AppendShapes(ts) ==
  {NewCreateEvent(<<1>>, "t", "", "task", ts, 2), NewCloseEvent(<<1>>, ts)}

\* beads_import.go: a plan carries the timestamps of the foreign issues.
ImportPlans ==
  {<<NewCreateEvent(<<2>>, "b", "", "task", 1, 1), NewCloseEvent(<<2>>, 1)>>}

IsPrefix(a, b) == Len(a) <= Len(b) /\ SubSeq(b, 1, Len(a)) = a

\* The history of a race: a rebuild that finished on a stale reading of the
\* log, then the first EnsureCache called after it.
Disturb(h) == IF h.raced = "no" THEN h ELSE [h EXCEPT !.raced = "no"]

\* The operations started so far, counted up to MaxOps.
Started(h) == [h EXCEPT !.ops = IF @ < MaxOps THEN @ + 1 ELSE @]

\* LoadEvents and sortEvents at the start of a rebuild.
Loaded(frame) ==
  LET r == LoadEvents(log)
  IN IF r.err # NoErr
     THEN [frame EXCEPT !.step = "return", !.err = r.err]
     ELSE [frame EXCEPT !.step = "reset", !.events = sortEvents(r.events)]

\* needsRebuild and needsSchemaUpdate at the start of EnsureCache.
Ensured(frame) ==
  IF needsRebuild(logMtime, cache) \/ needsSchemaUpdate(cache)
  THEN [frame EXCEPT !.step = "load"]
  ELSE [frame EXCEPT !.step = IF frame.op = "ListIssues" THEN "read" ELSE "return"]

StartAppend(p, e) ==
  /\ pc[p].op = "idle"
  /\ Len(hist.written) + 1 <= MaxLog
  /\ pc' = [pc EXCEPT ![p] = [Idle EXCEPT !.op = "AppendEvent", !.step = "write",
                                           !.queue = <<e>>, !.fd = 0]]
  /\ hist' = Started(Disturb(hist))
  /\ UNCHANGED <<log, logMtime, cache, clock, tree>>

StartImport(p, plan) ==
  /\ pc[p].op = "idle"
  /\ Len(hist.written) + Len(plan) <= MaxLog
  /\ pc' = [pc EXCEPT ![p] = [Idle EXCEPT !.op = "ApplyBeadsImportPlan",
                                           !.step = "write", !.queue = plan, !.fd = 0]]
  /\ hist' = Started(Disturb(hist))
  /\ UNCHANGED <<log, logMtime, cache, clock, tree>>

\* file.Write(append(data, '\n')): the whole line in one write call.
Write(p) ==
  /\ pc[p].step = "write"
  /\ LET line == Marshal(Head(pc[p].queue))
         rest == Tail(pc[p].queue)
     IN /\ log' = WriteAt(log, WriteOffset(Len(log), pc[p].fd), line)
        /\ logMtime' = clock
        /\ hist' = [Disturb(hist) EXCEPT
                      !.written = Append(@, line),
                      !.failed = FALSE,
                      !.overlap = @ \/ \E q \in Procs \ {p} : pc[q].step = "write"]
        /\ pc' = [pc EXCEPT ![p] =
             IF pc[p].op = "AppendEvent" THEN [@ EXCEPT !.step = "return", !.queue = rest]
             ELSE IF rest # <<>> THEN [@ EXCEPT !.queue = rest, !.fd = 0]
             ELSE [@ EXCEPT !.step = "load", !.queue = rest]]
  /\ UNCHANGED <<cache, clock, tree>>

StartRebuild(p) ==
  /\ pc[p].op = "idle"
  /\ pc' = [pc EXCEPT ![p] = Loaded([Idle EXCEPT !.op = "RebuildCache"])]
  /\ hist' = Started(Disturb(hist))
  /\ UNCHANGED <<log, logMtime, cache, clock, tree>>

StartEnsure(p, op) ==
  /\ pc[p].op = "idle"
  /\ pc' = [pc EXCEPT ![p] = Ensured([Idle EXCEPT !.op = op])]
  /\ hist' = Started(IF hist.raced = "stale" /\ op = "EnsureCache"
                     THEN [hist EXCEPT !.raced = "ensured", !.by = p]
                     ELSE Disturb(hist))
  /\ UNCHANGED <<log, logMtime, cache, clock, tree>>

StartInit(p) ==
  /\ pc[p].op = "idle"
  /\ log' = ensureEventsFile(TRUE, log)
  /\ pc' = [pc EXCEPT ![p] = Ensured([Idle EXCEPT !.op = "InitProject"])]
  /\ hist' = Started(Disturb(hist))
  /\ UNCHANGED <<logMtime, cache, clock, tree>>

Load(p) ==
  /\ pc[p].step = "load"
  /\ pc' = [pc EXCEPT ![p] = Loaded(@)]
  /\ UNCHANGED <<log, logMtime, cache, clock, tree, hist>>

Reset(p) ==
  /\ pc[p].step = "reset"
  /\ cache' = [exists |-> TRUE, depType |-> TRUE,
               tables |-> resetSchema(cache.tables), mtime |-> clock]
  /\ pc' = [pc EXCEPT ![p].step = "apply"]
  /\ UNCHANGED <<log, logMtime, clock, tree, hist>>

Apply(p) ==
  /\ pc[p].step = "apply"
  /\ LET r == applyEvents(cache.tables, pc[p].events)
         stale == LoadEvents(log).err = NoErr
                    /\ sortEvents(LoadEvents(log).events) # pc[p].events
     IN /\ cache' = [cache EXCEPT !.exists = TRUE, !.depType = TRUE, !.tables = r.db,
                                  !.mtime = IF r.db # cache.tables THEN clock ELSE @]
        /\ pc' = [pc EXCEPT ![p] =
             [@ EXCEPT !.err = r.err,
                       !.step = IF pc[p].op = "ListIssues" /\ r.err = NoErr
                                THEN "read" ELSE "return"]]
        /\ hist' = [hist EXCEPT !.ran = TRUE, !.err = r.err, !.at = r.at,
                                !.failed = IF r.err # NoErr THEN TRUE ELSE @,
                                !.raced = IF @ = "ensured" /\ hist.by = p THEN @
                                          ELSE IF stale THEN "stale" ELSE "no"]
  /\ UNCHANGED <<log, logMtime, clock, tree>>

Read(p) ==
  /\ pc[p].step = "read"
  /\ pc' = [pc EXCEPT ![p] = [@ EXCEPT !.step = "return", !.seen = cache.tables]]
  /\ UNCHANGED <<log, logMtime, cache, clock, tree, hist>>

Return(p) ==
  /\ pc[p].step = "return"
  /\ pc' = [pc EXCEPT ![p] = Idle]
  /\ UNCHANGED <<log, logMtime, cache, clock, tree, hist>>

\* The cache is disposable: somebody removes pebbles.db.
DeleteCache ==
  /\ \A p \in Procs : pc[p].op = "idle"
  /\ cache.exists
  /\ cache' = NoCache
  /\ hist' = Disturb(hist)
  /\ UNCHANGED <<log, logMtime, clock, pc, tree>>

Tick ==
  /\ clock < MaxClock
  /\ clock' = clock + 1
  /\ UNCHANGED <<log, logMtime, cache, pc, tree, hist>>

\* The calls of one invocation after its operation has started.
Continue(p) ==
  \/ Write(p)
  \/ Load(p)
  \/ Reset(p)
  \/ Apply(p)
  \/ Read(p)
  \/ Return(p)

\* After InitProject on a new directory: an empty log and the cache
\* EnsureCache built from it.
Init ==
  /\ log = <<>>
  /\ logMtime = 1
  /\ cache = [exists |-> TRUE, depType |-> TRUE, tables |-> EmptyTables, mtime |-> 1]
  /\ clock = 1
  /\ pc = [p \in Procs |-> Idle]
  /\ tree = NoTree
  /\ hist = NoHist

\* Concurrent invocations of the operations that write the log and the
\* cache, MaxOps of them in all.
Next ==
  \/ \E p \in Procs :
       \/ /\ hist.ops < MaxOps
          /\ \/ \E e \in AppendShapes(NowTimestamp(clock)) : StartAppend(p, e)
             \/ StartRebuild(p)
             \/ StartEnsure(p, "EnsureCache")
       \/ Write(p)
       \/ Load(p)
       \/ Reset(p)
       \/ Apply(p)
       \/ Return(p)
  \/ Tick

Spec == Init /\ [][Next]_vars

\* One caller running every engine operation, one at a time.
NextSerial ==
  \/ \E e \in AppendShapes(NowTimestamp(clock)) : StartAppend(1, e)
  \/ \E plan \in ImportPlans : StartImport(1, plan)
  \/ StartRebuild(1)
  \/ \E op \in {"EnsureCache", "ListIssues"} : StartEnsure(1, op)
  \/ StartInit(1)
  \/ Continue(1)
  \/ DeleteCache
  \/ Tick

SpecSerial == Init /\ [][NextSerial]_vars

\* C4: no engine operation changes, reorders or removes a line of the
\* log: the log before each step is a prefix of the log after it.
C4_AppendOnly == [][IsPrefix(log, log')]_vars

\* C4 witness: InitProject has run to its end on a project whose log
\* already holds the lines of an import and of an AppendEvent.
C4_Witness ==
  /\ pc[1].op = "InitProject"
  /\ pc[1].step = "return"
  /\ Len(log) = 3
  /\ hist.ran

\* C5: once a rebuild of the current log has failed at its k-th event
\* (k > 1), a read through EnsureCache fails too or returns the complete
\* projection of the log, never the rows left by the events before k.
C5_NoPartialState ==
  \A p \in Procs :
    (pc[p].op = "ListIssues" /\ pc[p].step = "return" /\ hist.failed /\ hist.at > 1) =>
      \/ pc[p].err # NoErr
      \/ /\ Project(log).err = NoErr
         /\ pc[p].seen = Project(log).cache.tables

\* C6: for one serial caller, whenever EnsureCache returns without error
\* the cache tables are the projection of the whole log.
C6_CacheFaithful ==
  \A p \in Procs :
    (pc[p].op = "EnsureCache" /\ pc[p].step = "return" /\ pc[p].err = NoErr) =>
      /\ Project(log).err = NoErr
      /\ cache.exists
      /\ cache.tables = Project(log).cache.tables

\* C7: after a rebuild that loaded the log before an append completed and
\* wrote the cache after it, the next EnsureCache leaves a cache that
\* reflects the appended event.
C7_RaceCorrected ==
  \A p \in Procs :
    (/\ pc[p].op = "EnsureCache"
     /\ pc[p].step = "return"
     /\ pc[p].err = NoErr
     /\ hist.raced = "ensured"
     /\ hist.by = p
     /\ Project(log).err = NoErr) =>
      cache.tables = Project(log).cache.tables

\* C8: whatever the interleaving of AppendEvent calls, the log is the
\* lines written, each whole and once, in the order of the write calls.
C8_AppendsIntact == log = hist.written

\* C8 witness: two appends whose descriptors were open at the same time
\* have both written and returned.
C8_Witness ==
  /\ hist.overlap
  /\ Len(log) = 2
  /\ log[1] # log[2]
  /\ \A p \in Procs : pc[p].op = "AppendEvent" /\ pc[p].step = "return"

(***************************************************************************)
(* Two working trees of one repository. The trunk is `log`; after the fork *)
(* each branch extends its own copy with commands, each of which reads the *)
(* cache its predecessor rebuilt and ends with RebuildCache; the merge     *)
(* keeps the common lines and the lines either branch added. The trunk's   *)
(* issues are created within one tick of the clock.                        *)
(***************************************************************************)
Branches == {"a", "b"}
Trees == {"trunk"} \cup Branches

Host(w) == CASE w = "trunk" -> 0 [] w = "a" -> 1 [] w = "b" -> 2

\* issueIDHash differs with the timestamp and the host; issueIDFromHash
\* cuts it at three lengths.
Candidates(w, timestamp) ==
  LET hash == 100 * Host(w) + timestamp
  IN <<<<hash>>, <<hash + 1000>>, <<hash + 2000>>>>

\* The id each user types as the new name in pb rename.
RenameTarget(w) == <<10 * (Host(w) + 1)>>

NoMerge == [phase |-> "trunk", base |-> 0,
            logs |-> [w \in Branches |-> <<>>], done |-> [w \in Branches |-> 0]]

TreeLog(w) == IF w = "trunk" THEN log ELSE tree.logs[w]

TreeDB(w) == Project(TreeLog(w)).cache.tables

Marshalled(events) == [i \in 1..Len(events) |-> Marshal(events[i])]

\* A command that exits 0 in working tree w: its events are appended and
\* the rebuild that ends it succeeds.
Commit(w, out) ==
  /\ IF w = "trunk"
     THEN tree.phase = "trunk" /\ Len(log) + Len(out.events) <= MaxLog
     ELSE tree.phase = "forked" /\ tree.done[w] < MaxBranchOps
  /\ out.err = NoErr
  /\ out.events # <<>>
  /\ LET lines == TreeLog(w) \o Marshalled(out.events)
     IN /\ Project(lines).err = NoErr
        /\ IF w = "trunk"
           THEN log' = lines /\ tree' = tree
           ELSE log' = log /\ tree' = [tree EXCEPT !.logs[w] = lines, !.done[w] = @ + 1]
  /\ UNCHANGED <<logMtime, cache, clock, pc, hist>>

Create(w) ==
  Commit(w, runCreate(TreeDB(w), Candidates(w, NowTimestamp(clock)), "t", "P2",
                      NowTimestamp(clock)))

Update(w) ==
  \E id \in DOMAIN TreeDB(w).issues, byStatus \in BOOLEAN :
    Commit(w, runUpdate(TreeDB(w), id, IF byStatus THEN StatusInProgress ELSE "",
                        Unset, Unset, IF byStatus THEN Unset ELSE SetTo("P1"),
                        NowTimestamp(clock)))

Close(w) ==
  \E id \in DOMAIN TreeDB(w).issues :
    Commit(w, runClose(TreeDB(w), id, NowTimestamp(clock)))

Comment(w) ==
  \E id \in DOMAIN TreeDB(w).issues :
    Commit(w, runComment(TreeDB(w), id, "c", NowTimestamp(clock)))

Rename(w) ==
  \E id \in DOMAIN TreeDB(w).issues :
    Commit(w, runRename(TreeDB(w), id, RenameTarget(w), NowTimestamp(clock)))

DepAdd(w) ==
  \E id, on \in DOMAIN TreeDB(w).issues, depType \in {DepTypeBlocks, DepTypeParentChild} :
    /\ id # on
    /\ Commit(w, runDepAdd(TreeDB(w), id, on, depType, NowTimestamp(clock)))

DepRemove(w) ==
  \E id, on \in DOMAIN TreeDB(w).issues :
    /\ id # on
    /\ Commit(w, runDepRemove(TreeDB(w), id, on, DepTypeBlocks, NowTimestamp(clock)))

Fork ==
  /\ tree.phase = "trunk"
  /\ tree' = [tree EXCEPT !.phase = "forked", !.base = Len(log),
                          !.logs = [w \in Branches |-> log]]
  /\ UNCHANGED <<log, logMtime, cache, clock, pc, hist>>

\* The merged log: the lines of `first`, then what the other branch added.
Merged(first) ==
  LET other == CHOOSE w \in Branches : w # first
  IN tree.logs[first] \o SubSeq(tree.logs[other], tree.base + 1, Len(tree.logs[other]))

\* git merge, then the rebuild of the cache from the merged log.
Merge(first) ==
  /\ tree.phase = "forked"
  /\ \A w \in Branches : tree.done[w] > 0
  /\ LET r == RebuildCache(Merged(first), NoCache, clock)
     IN /\ log' = Merged(first)
        /\ logMtime' = clock
        /\ cache' = r.cache
        /\ hist' = [hist EXCEPT !.ran = TRUE, !.err = r.err, !.at = r.at,
                                !.order = r.order]
  /\ tree' = [tree EXCEPT !.phase = "merged"]
  /\ UNCHANGED <<clock, pc>>

InitMerge ==
  /\ log = <<>>
  /\ logMtime = 1
  /\ cache = [exists |-> TRUE, depType |-> TRUE, tables |-> EmptyTables, mtime |-> 1]
  /\ clock = 1
  /\ pc = [p \in Procs |-> Idle]
  /\ tree = NoMerge
  /\ hist = NoHist

NextMerge ==
  \/ Create("trunk")
  \/ Fork
  \/ \E w \in Branches :
       \/ Create(w)
       \/ Update(w)
       \/ Close(w)
       \/ Comment(w)
       \/ Rename(w)
       \/ DepAdd(w)
       \/ DepRemove(w)
  \/ \E first \in Branches : Merge(first)
  \/ tree.phase = "forked" /\ Tick

SpecMerge == InitMerge /\ [][NextMerge]_vars

\* C2: when both branches extend the trunk by commands that succeeded and
\* each branch log rebuilds without error, the log that holds every line of
\* both branches rebuilds without error too.
C2_MergeRebuilds ==
  (/\ tree.phase = "merged"
   /\ \A w \in Branches : Project(tree.logs[w]).err = NoErr) =>
    hist.err = NoErr

(***************************************************************************)
(* Replaying given logs: the log and the cache found on disk are drawn     *)
(* from bounded sets, and RebuildCache runs on them.                       *)
(***************************************************************************)
RECURSIVE SeqsUpTo(_, _)
SeqsUpTo(S, n) ==
  IF n = 0 THEN {<<>>}
  ELSE LET shorter == SeqsUpTo(S, n - 1)
       IN shorter \cup {Append(q, x) : q \in {r \in shorter : Len(r) = n - 1}, x \in S}

StaleRow == [title |-> "old", description |-> "", issue_type |-> "task",
             status |-> StatusClosed, priority |-> 0, created_at |-> 1,
             updated_at |-> 1, closed_at |-> 1]

StaleTables == [issues |-> Put(EmptyIssues, <<1>>, StaleRow),
                deps |-> {<< <<1>>, <<1>>, DepTypeBlocks >>},
                renames |-> Put(EmptyRenames, <<2>>, <<1>>)]

PreCaches ==
  {NoCache,
   [exists |-> TRUE, depType |-> TRUE, tables |-> StaleTables, mtime |-> 0],
   [exists |-> TRUE, depType |-> FALSE, tables |-> StaleTables, mtime |-> 0]}

RebuildShapes ==
  {NewCreateEvent(<<1>>, "t", "", "task", 1, 2),
   NewCreateEvent(<<1>>, "t", "", "task", 3, 2),
   Event(EventTypeCreate, 1, <<2>>,
         [title |-> "u", description |-> "d", type |-> "", priority |-> "P9"]),
   NewCloseEvent(<<1>>, 1),
   NewCloseEvent(<<1>>, 3),
   NewRenameEvent(<<1>>, <<2>>, 1),
   NewRenameEvent(<<1>>, <<2>>, 3),
   NewStatusEvent(<<2>>, StatusInProgress, 3),
   NewUpdateEvent(<<1>>, 3, [priority |-> "P1"]),
   NewCommentEvent(<<2>>, "c", 3),
   NewDepAddEvent(<<1>>, <<2>>, "", 3),
   NewDepRemoveEvent(<<1>>, <<2>>, DepTypeBlocks, 3),
   Event("title_updated", 3, <<1>>, [title |-> "v"])}

RebuildPool == {Marshal(e) : e \in RebuildShapes}

RebuildOp ==
  LET r == RebuildCache(log, cache, clock)
  IN /\ cache' = r.cache
     /\ hist' = [hist EXCEPT !.ran = TRUE, !.err = r.err, !.at = r.at,
                             !.order = r.order]
     /\ UNCHANGED <<log, logMtime, clock, pc, tree>>

InitRebuild ==
  /\ log \in SeqsUpTo(RebuildPool, MaxLog)
  /\ logMtime = 1
  /\ cache \in PreCaches
  /\ clock = 1
  /\ pc = [p \in Procs |-> Idle]
  /\ tree = NoTree
  /\ hist = NoHist

SpecRebuild == InitRebuild /\ [][RebuildOp]_vars

\* C1: a rebuild of a log ends as a rebuild of the same log into a fresh
\* cache does, whatever cache it found: the same error or success and, on
\* success, the same issues, deps and renames tables.
C1_Deterministic ==
  hist.ran =>
    /\ (hist.err = NoErr) = (Project(log).err = NoErr)
    /\ hist.err = NoErr => cache.tables = Project(log).cache.tables

\* C1 witness: a log that rebuilds without error into a non-empty issues
\* table, rebuilt over a cache that held other rows.
C1_Witness ==
  /\ hist.ran
  /\ hist.err = NoErr
  /\ Len(log) >= 2
  /\ DOMAIN cache.tables.issues # {}
  /\ cache.tables # StaleTables

(***************************************************************************)
(* Replay order: logs over a few event types and every kind of timestamp   *)
(* (unparseable, two spellings of one instant, later instants).            *)
(***************************************************************************)
OrderTimestamps == {0, 1, 2, 3, 5}

OrderShapes(t) ==
  {NewCreateEvent(<<1>>, "t", "", "task", t, 2),
   NewRenameEvent(<<1>>, <<2>>, t),
   NewDepAddEvent(<<1>>, <<1>>, DepTypeBlocks, t),
   NewCloseEvent(<<1>>, t)}

OrderPool == UNION {{Marshal(e) : e \in OrderShapes(t)} : t \in OrderTimestamps}

InitOrder ==
  /\ log \in SeqsUpTo(OrderPool, MaxLog)
  /\ logMtime = 1
  /\ cache = NoCache
  /\ clock = 1
  /\ pc = [p \in Procs |-> Idle]
  /\ tree = NoTree
  /\ hist = NoHist

SpecOrder == InitOrder /\ [][RebuildOp]_vars

\* The permutations of 1..n, as sequences.
Perms(n) == {f \in [1..n -> 1..n] : \A i, j \in 1..n : i # j => f[i] # f[j]}

Reorder(lines, f) == [i \in 1..Len(lines) |-> lines[f[i]]]

Instant(line) == ParseTime(line.event.Timestamp)

DistinctInstants(lines) ==
  /\ \A i \in 1..Len(lines) : ParseOK(lines[i].event.Timestamp)
  /\ \A i, j \in 1..Len(lines) : i # j => Instant(lines[i]) # Instant(lines[j])

\* Two events have the same timestamp: the same string, or two spellings of
\* one instant.
SameTimestamp(e, f) ==
  \/ e.Timestamp = f.Timestamp
  \/ ParseOK(e.Timestamp) /\ ParseOK(f.Timestamp)
       /\ ParseTime(e.Timestamp) = ParseTime(f.Timestamp)

\* The position in the replay order of the event read from line i.
ReplayPos(order, i) == CHOOSE k \in 1..Len(order) : order[k] = i

\* C3: when the timestamps of a log all parse and denote pairwise distinct
\* instants, a rebuild of the log ends as the rebuild of every reordering of
\* its lines does: the same error or success and the same tables.
C3_OrderNormalized ==
  (hist.ran /\ DistinctInstants(log)) =>
    \A f \in Perms(Len(log)) :
      LET other == Project(Reorder(log, f))
      IN /\ (other.err = NoErr) = (hist.err = NoErr)
         /\ other.cache.tables = cache.tables

\* C3 witness: three events at three instants, written latest first, that
\* rebuild without error.
C3_Witness ==
  /\ hist.ran
  /\ hist.err = NoErr
  /\ Len(log) = 3
  /\ DistinctInstants(log)
  /\ Instant(log[1]) > Instant(log[2])
  /\ Instant(log[2]) > Instant(log[3])

C10_TiesInTypeOrder ==
  hist.ran =>
    \A i, j \in 1..Len(log) :
      (/\ log[i].event.Timestamp = log[j].event.Timestamp
       /\ ParseOK(log[i].event.Timestamp)
       /\ TypeRank(log[i].event.Type) < TypeRank(log[j].event.Type)) =>
        ReplayPos(hist.order, i) < ReplayPos(hist.order, j)

(***************************************************************************)
(* Properties of the replay, event by event.                               *)
(***************************************************************************)
\* The events of the log in replay order, and the tables after the first k.
Replayed(lines) == sortEvents(LoadEvents(lines).events)

TablesAfter(lines, k) == applyEvents(EmptyTables, SubSeq(Replayed(lines), 1, k)).db

\* The first k events of the log's replay were all applied.
AppliedThrough(k) == hist.ran /\ (hist.at = 0 \/ k < hist.at)

IsCreate(line) ==
  /\ line.kind = "json"
  /\ line.event.Type = EventTypeCreate
  /\ GetStr(line.event.Payload, "title") # ""

\* C11: in a log of create events where a create for an id follows another
\* create for that id, the rebuild succeeds and the issue keeps the fields
\* of the create replayed first.
C11_DuplicateCreateIgnored ==
  (/\ hist.ran
   /\ \A i \in 1..Len(log) : IsCreate(log[i])
   /\ \E i, j \in 1..Len(log) : i # j /\ log[i].event.IssueID = log[j].event.IssueID) =>
    /\ hist.err = NoErr
    /\ \A i \in 1..Len(log) :
         LET id == log[i].event.IssueID
             same == {j \in 1..Len(log) : log[j].event.IssueID = id}
             first == CHOOSE j \in same :
                        \A m \in same : ReplayPos(hist.order, j) <= ReplayPos(hist.order, m)
         IN /\ id \in DOMAIN cache.tables.issues
            /\ cache.tables.issues[id].created_at = log[first].event.Timestamp
            /\ cache.tables.issues[id].title = GetStr(log[first].event.Payload, "title")

\* The event types that address an issue that must already exist.
NeedsIssue == {EventTypeStatus, EventTypeUpdate, EventTypeClose, EventTypeComment}

NeedsBoth == {EventTypeDepAdd, EventTypeDepRemove}

\* The id resolves through the rename table to a row of the issues table.
ResolvesToRow(db, id) ==
  /\ resolveIssueID(db, id).err = NoErr
  /\ resolveIssueID(db, id).id \in DOMAIN db.issues

\* The event addresses an issue (or a dependency target) that is not there.
AddressesMissing(db, event) ==
  \/ /\ event.Type \in NeedsIssue \cup NeedsBoth
     /\ ~ResolvesToRow(db, event.IssueID)
  \/ /\ event.Type \in NeedsBoth
     /\ ~ResolvesToRow(db, GetID(event.Payload, "depends_on"))

\* C12: when the replay reaches a status_update, update, close, comment,
\* dep_add or dep_rm event whose issue id (or depends_on id) does not resolve
\* through the rename table to an existing row, the rebuild fails at that
\* event and the event changes no table.
C12_MissingIssueFails ==
  hist.ran =>
    \A k \in 1..Len(Replayed(log)) :
      (/\ AppliedThrough(k - 1)
       /\ AddressesMissing(TablesAfter(log, k - 1), Replayed(log)[k])) =>
        /\ hist.at = k
        /\ hist.err # NoErr
        /\ cache.tables = TablesAfter(log, k - 1)

\* A status update for an id that no row and no rename knows, replayed after
\* a create of another issue.
C12_Witness ==
  /\ hist.ran
  /\ hist.at = 2
  /\ Len(Replayed(log)) >= 2
  /\ Replayed(log)[2].Type = EventTypeStatus
  /\ AddressesMissing(TablesAfter(log, 1), Replayed(log)[2])
  /\ DOMAIN cache.tables.issues = {<<1>>}

\* The three cases in which a rename must be rejected.
RenameSourceMissing(db, event) == ~ResolvesToRow(db, event.IssueID)

RenameTargetExists(db, event) == GetID(event.Payload, "new_id") \in DOMAIN db.issues

RenameTargetIsCurrent(db, event) ==
  /\ resolveIssueID(db, event.IssueID).err = NoErr
  /\ resolveIssueID(db, event.IssueID).id = GetID(event.Payload, "new_id")

\* C13: when the replay reaches a rename whose source does not resolve to an
\* existing issue, or whose target is the id of an existing issue, or whose
\* target is the source's canonical id, the rebuild fails at that event and
\* the issues, deps and renames tables stay as they were before it.
C13_RenameRejected ==
  hist.ran =>
    \A k \in 1..Len(Replayed(log)) :
      (/\ AppliedThrough(k - 1)
       /\ Replayed(log)[k].Type = EventTypeRename
       /\ \/ RenameSourceMissing(TablesAfter(log, k - 1), Replayed(log)[k])
          \/ RenameTargetExists(TablesAfter(log, k - 1), Replayed(log)[k])
          \/ RenameTargetIsCurrent(TablesAfter(log, k - 1), Replayed(log)[k])) =>
        /\ hist.at = k
        /\ hist.err # NoErr
        /\ cache.tables = TablesAfter(log, k - 1)

\* A second rename of an issue to the id it already has, after a create and
\* a first rename that were applied.
C13_Witness ==
  /\ hist.ran
  /\ hist.at = 3
  /\ Len(Replayed(log)) = 3
  /\ Replayed(log)[3].Type = EventTypeRename
  /\ RenameTargetIsCurrent(TablesAfter(log, 2), Replayed(log)[3])
  /\ DOMAIN cache.tables.renames = {<<1>>}

KnownTypes ==
  {EventTypeCreate, EventTypeRename, EventTypeStatus, EventTypeUpdate,
   EventTypeClose, EventTypeComment, EventTypeDepAdd, EventTypeDepRemove}

\* C23: a log that holds an event of a type other than the eight known ones
\* does not rebuild without an error, and when the replay reaches such an
\* event the rebuild fails at it with the unknown-type error and the event
\* changes no table.
C23_UnknownTypeFails ==
  hist.ran =>
    \A k \in 1..Len(Replayed(log)) :
      Replayed(log)[k].Type \notin KnownTypes =>
        /\ hist.err # NoErr
        /\ AppliedThrough(k - 1) =>
             /\ hist.at = k
             /\ hist.err = "unknown event type"
             /\ cache.tables = TablesAfter(log, k - 1)

\* An event of type title_updated reached after an applied create.
C23_Witness ==
  /\ hist.ran
  /\ Len(Replayed(log)) >= 2
  /\ Replayed(log)[1].Type = EventTypeCreate
  /\ Replayed(log)[2].Type = "title_updated"
  /\ hist.at = 2
  /\ hist.err = "unknown event type"
  /\ DOMAIN cache.tables.issues = {<<1>>}

(***************************************************************************)
(* The life of an issue: logs drawn from creates, closes, status updates,   *)
(* an update, a rename and a dependency, rebuilt into a fresh cache.        *)
(***************************************************************************)
LifeShapes ==
  {NewCreateEvent(<<1>>, "t", "", "task", 1, 2),
   NewCreateEvent(<<1>>, "t", "", "task", 5, 2),
   NewDepAddEvent(<<1>>, <<1>>, DepTypeBlocks, 1),
   NewRenameEvent(<<1>>, <<2>>, 3),
   NewCloseEvent(<<1>>, 3),
   NewCloseEvent(<<2>>, 5),
   NewStatusEvent(<<1>>, StatusClosed, 3),
   NewStatusEvent(<<1>>, StatusInProgress, 5),
   NewStatusEvent(<<2>>, StatusOpen, 5),
   NewStatusEvent(<<1>>, "bogus", 5),
   NewUpdateEvent(<<1>>, 5, [priority |-> "P1"])}

LifePool == {Marshal(e) : e \in LifeShapes}

InitLife ==
  /\ log \in SeqsUpTo(LifePool, MaxLog)
  /\ logMtime = 1
  /\ cache = NoCache
  /\ clock = 1
  /\ pc = [p \in Procs |-> Idle]
  /\ tree = NoTree
  /\ hist = NoHist

SpecLife == InitLife /\ [][RebuildOp]_vars

\* The dependency rows with every reference to oldID replaced by newID.
Renamed(deps, oldID, newID) ==
  {<<IF d[1] = oldID THEN newID ELSE d[1],
     IF d[2] = oldID THEN newID ELSE d[2], d[3]>> : d \in deps}

\* What an applied rename of canon (addressed as old) to new did to the tables.
RenameMoved(before, after, old, canon, new, timestamp) ==
  /\ DOMAIN after.issues = (DOMAIN before.issues \ {canon}) \cup {new}
  /\ after.issues[new] = [before.issues[canon] EXCEPT !.updated_at = timestamp]
  /\ \A id \in DOMAIN after.issues \ {new} : after.issues[id] = before.issues[id]
  /\ GetIssue(after, old) = [id |-> new, err |-> NoErr]
  /\ GetIssue(after, new) = [id |-> new, err |-> NoErr]
  /\ after.deps = Renamed(before.deps, canon, new)
  /\ \A d \in after.deps : d[1] # canon /\ d[2] # canon

\* An event addressed to old or to new changed the row new and no other, and
\* did what the same event addressed to the other id would have done.
AppliedToRow(before, after, event, old, new) ==
  /\ DOMAIN after.issues = DOMAIN before.issues
  /\ \A id \in DOMAIN after.issues \ {new} : after.issues[id] = before.issues[id]
  /\ applyEvent(before, [event EXCEPT !.IssueID = old]).db = after
  /\ applyEvent(before, [event EXCEPT !.IssueID = new]).db = after
  /\ \A d \in after.deps \ before.deps : d[1] = new

RowAfter(k) ==
  TablesAfter(log, k).issues[resolveIssueID(TablesAfter(log, k - 1),
                                            Replayed(log)[k].IssueID).id]

\* C17: an applied close with timestamp T leaves the issue closed with
\* closed_at = T and updated_at = T; an applied status_update to a status
\* other than closed leaves the issue with that status and an empty
\* closed_at; neither removes a row, and no applied event leaves an id that
\* found a row without one.
C17_CloseReopen ==
  hist.ran =>
    \A k \in 1..Len(Replayed(log)) :
      AppliedThrough(k) =>
        /\ Replayed(log)[k].Type = EventTypeClose =>
             /\ RowAfter(k).status = StatusClosed
             /\ RowAfter(k).closed_at = Replayed(log)[k].Timestamp
             /\ RowAfter(k).updated_at = Replayed(log)[k].Timestamp
             /\ DOMAIN TablesAfter(log, k).issues = DOMAIN TablesAfter(log, k - 1).issues
        /\ (/\ Replayed(log)[k].Type = EventTypeStatus
            /\ GetStr(Replayed(log)[k].Payload, "status") # StatusClosed) =>
             /\ RowAfter(k).status = GetStr(Replayed(log)[k].Payload, "status")
             /\ RowAfter(k).closed_at = 0
             /\ DOMAIN TablesAfter(log, k).issues = DOMAIN TablesAfter(log, k - 1).issues
        /\ \A id \in DOMAIN TablesAfter(log, k - 1).issues :
             ResolvesToRow(TablesAfter(log, k), id)

\* create, close at 3, reopen at 5: closed with closed_at = 3 after the
\* close, in progress with an empty closed_at at the end.
C17_Witness ==
  /\ hist.ran
  /\ hist.err = NoErr
  /\ Len(Replayed(log)) = 3
  /\ Replayed(log)[2].Type = EventTypeClose
  /\ Replayed(log)[3].Type = EventTypeStatus
  /\ TablesAfter(log, 2).issues[<<1>>].closed_at = 3
  /\ TablesAfter(log, 2).issues[<<1>>].status = StatusClosed
  /\ cache.tables.issues[<<1>>].status = StatusInProgress
  /\ cache.tables.issues[<<1>>].closed_at = 0

\* C18: after a rebuild that succeeded, every issue whose status is closed
\* has a closed_at that is not empty, also when a status_update closed it.
C18_ClosedHasClosedAt ==
  (hist.ran /\ hist.err = NoErr) =>
    \A id \in DOMAIN cache.tables.issues :
      cache.tables.issues[id].status = StatusClosed =>
        cache.tables.issues[id].closed_at # 0

\* C19: after every applied event of a replay, every issue whose status is
\* not closed has an empty closed_at.
C19_OpenHasNoClosedAt ==
  hist.ran =>
    \A k \in 0..Len(Replayed(log)) :
      AppliedThrough(k) =>
        \A id \in DOMAIN TablesAfter(log, k).issues :
          TablesAfter(log, k).issues[id].status # StatusClosed =>
            TablesAfter(log, k).issues[id].closed_at = 0

\* An issue that had a closed_at and whose last event is a status update to
\* a status other than closed.
C19_Witness ==
  /\ hist.ran
  /\ hist.err = NoErr
  /\ Len(Replayed(log)) >= 2
  /\ Replayed(log)[Len(log)].Type = EventTypeStatus
  /\ \E id \in DOMAIN TablesAfter(log, Len(log) - 1).issues :
       /\ TablesAfter(log, Len(log) - 1).issues[id].closed_at # 0
       /\ id \in DOMAIN cache.tables.issues
       /\ cache.tables.issues[id].status # StatusClosed

\* C20: after a rebuild that succeeded, the status of every issue is open,
\* in_progress or closed.
C20_StatusInRange ==
  (hist.ran /\ hist.err = NoErr) =>
    \A id \in DOMAIN cache.tables.issues :
      cache.tables.issues[id].status \in {StatusOpen, StatusInProgress, StatusClosed}

(***************************************************************************)
(* resolveIssueID over rename tables of every shape: chains, self-maps and *)
(* cycles over three ids, asked about plain, padded, blank and empty ids.  *)
(***************************************************************************)
ResolveIDs == {<<1>>, <<2>>, <<3>>}

RenameTables ==
  UNION {[olds -> ResolveIDs] : olds \in SUBSET ResolveIDs}

ResolveInputs ==
  ResolveIDs \cup {EmptyID, <<Blank>>, <<Blank, Blank>>, <<Blank, 1>>, <<1, Blank>>}

InitResolve ==
  /\ log = <<>>
  /\ logMtime = 1
  /\ cache \in {[exists |-> TRUE, depType |-> TRUE, mtime |-> 1,
                 tables |-> [EmptyTables EXCEPT !.renames = t]] : t \in RenameTables}
  /\ clock = 1
  /\ pc = [p \in Procs |-> Idle]
  /\ tree = NoTree
  /\ hist = NoHist

\* A caller resolves an id; the call and what it returned are kept in pc[1].
Resolve ==
  \E id \in ResolveInputs :
    /\ pc' = [pc EXCEPT ![1] = [Idle EXCEPT !.op = "resolveIssueID",
                                            !.queue = <<id>>,
                                            !.events = <<resolveIssueID(cache.tables, id).id>>,
                                            !.err = resolveIssueID(cache.tables, id).err]]
    /\ UNCHANGED <<log, logMtime, cache, clock, tree, hist>>

SpecResolve == InitResolve /\ [][Resolve]_vars

\* The id without its blanks (the inputs carry blanks at their ends only).
Core(id) == SelectSeq(id, LAMBDA x : x # Blank)

\* The ids met within n steps along the rename table from a.
RECURSIVE Walk(_, _, _)
Walk(renames, a, n) ==
  IF n = 0 \/ a \notin DOMAIN renames THEN {a}
  ELSE {a} \cup Walk(renames, renames[a], n - 1)

ChainEnds(renames, a) ==
  {x \in Walk(renames, a, Cardinality(DOMAIN renames)) : x \notin DOMAIN renames}

\* C15: resolving an id that starts a chain of renames ending in an id with
\* no mapping returns that last id; resolving an id whose chain comes back to
\* an id already met fails with the rename-cycle error; resolving an empty
\* or blank id fails.
C15_ResolveEndOfChain ==
  pc[1].op = "resolveIssueID" =>
    /\ Core(pc[1].queue[1]) = EmptyID =>
         /\ pc[1].err = "issue id is required"
         /\ pc[1].events = <<EmptyID>>
    /\ (/\ Core(pc[1].queue[1]) # EmptyID
        /\ ChainEnds(cache.tables.renames, Core(pc[1].queue[1])) # {}) =>
         /\ pc[1].err = NoErr
         /\ pc[1].events[1] \in ChainEnds(cache.tables.renames, Core(pc[1].queue[1]))
    /\ (/\ Core(pc[1].queue[1]) # EmptyID
        /\ ChainEnds(cache.tables.renames, Core(pc[1].queue[1])) = {}) =>
         /\ pc[1].err = "rename cycle detected"
         /\ pc[1].events = <<EmptyID>>

\* The chain 1 to 2 to 3 resolved from its first id.
C15_Witness ==
  /\ pc[1].op = "resolveIssueID"
  /\ pc[1].queue = << <<1>> >>
  /\ DOMAIN cache.tables.renames = {<<1>>, <<2>>}
  /\ cache.tables.renames[<<1>>] = <<2>>
  /\ cache.tables.renames[<<2>>] = <<3>>
  /\ pc[1].events = << <<3>> >>
  /\ pc[1].err = NoErr

\* A cycle of two renames entered from outside it.
C15_WitnessCycle ==
  /\ pc[1].op = "resolveIssueID"
  /\ pc[1].queue = << <<3>> >>
  /\ cache.tables.renames = [x \in ResolveIDs |-> IF x = <<1>> THEN <<2>> ELSE <<1>>]
  /\ pc[1].err = "rename cycle detected"

(***************************************************************************)
(* ListReadyIssues over caches of up to three issues in every status with  *)
(* up to MaxDeps dependency rows of either type among them.                *)
(***************************************************************************)
ReadyIDs == {<<1>>, <<1, 10>>, <<1, 2>>}

ReadyRow(status) ==
  [title |-> "t", description |-> "", issue_type |-> "task", status |-> status,
   priority |-> DefaultPriority, created_at |-> 1, updated_at |-> 1,
   closed_at |-> IF status = StatusClosed THEN 1 ELSE 0]

RECURSIVE SetsUpTo(_, _)
SetsUpTo(S, n) ==
  IF n = 0 THEN {{}}
  ELSE LET smaller == SetsUpTo(S, n - 1)
       IN smaller \cup {d \cup {x} : d \in {e \in smaller : Cardinality(e) = n - 1},
                                     x \in S}

\* The tables with at most n dependency rows.
ReadyTables(n) ==
  UNION {{[issues |-> [i \in ids |-> ReadyRow(st[i])], deps |-> deps,
           renames |-> EmptyRenames] :
            st \in [ids -> {StatusOpen, StatusInProgress, StatusClosed}],
            deps \in SetsUpTo(ids \X ids \X {DepTypeBlocks, DepTypeParentChild}, n)} :
         ids \in SUBSET ReadyIDs}

\* The cache is as new as the log, so EnsureCache leaves it as it is.
InitReady ==
  /\ log = <<>>
  /\ logMtime = 1
  /\ cache \in {[exists |-> TRUE, depType |-> TRUE, mtime |-> 1, tables |-> t] :
                  t \in ReadyTables(MaxDeps)}
  /\ clock = 1
  /\ pc = [p \in Procs |-> Idle]
  /\ tree = NoTree
  /\ hist = NoHist

\* A caller lists the ready issues; the ids returned are kept in pc[1].
ListReady ==
  /\ pc[1].op = "idle"
  /\ ~needsRebuild(logMtime, cache)
  /\ pc' = [pc EXCEPT ![1] = [Idle EXCEPT !.op = "ListReadyIssues",
                                          !.events = ListReadyIssues(cache.tables)]]
  /\ UNCHANGED <<log, logMtime, cache, clock, tree, hist>>

SpecReady == InitReady /\ [][ListReady]_vars

NotClosed(db, id) == id \in DOMAIN db.issues /\ db.issues[id].status # StatusClosed

BlockedByOpen(db, id) ==
  \E b \in DOMAIN db.issues :
    NotClosed(db, b) /\ <<id, b, DepTypeBlocks>> \in db.deps

\* C16: the ready list holds exactly the issues that are not closed and have
\* no blocks dependency on an issue that is not closed, whatever parent-child
\* rows there are, each once, in ascending order of id.
C16_ReadyList ==
  pc[1].op = "ListReadyIssues" =>
    /\ {pc[1].events[n] : n \in DOMAIN pc[1].events} =
         {i \in DOMAIN cache.tables.issues :
            NotClosed(cache.tables, i) /\ ~BlockedByOpen(cache.tables, i)}
    /\ \A m, n \in DOMAIN pc[1].events :
         m < n => IDLess(pc[1].events[m], pc[1].events[n])

\* Three open issues, 1 blocked by 1.10 and 1.2 a child of 1.10: the list is
\* 1.10 then 1.2.
C16_Witness ==
  /\ pc[1].op = "ListReadyIssues"
  /\ DOMAIN cache.tables.issues = ReadyIDs
  /\ \A i \in ReadyIDs : cache.tables.issues[i].status = StatusOpen
  /\ cache.tables.deps = {<< <<1>>, <<1, 10>>, DepTypeBlocks >>,
                          << <<1, 2>>, <<1, 10>>, DepTypeParentChild >>}
  /\ pc[1].events = << <<1, 10>>, <<1, 2>> >>

\* The blocker closed: the issue it blocked is listed.
C16_WitnessUnblocked ==
  /\ pc[1].op = "ListReadyIssues"
  /\ DOMAIN cache.tables.issues = {<<1>>, <<1, 10>>}
  /\ cache.tables.issues[<<1, 10>>].status = StatusClosed
  /\ cache.tables.deps = {<< <<1>>, <<1, 10>>, DepTypeBlocks >>}
  /\ pc[1].events = << <<1>> >>

(***************************************************************************)
(* Priorities: logs of creates and updates of one issue that carry priority *)
(* strings of every kind, rebuilt into a fresh cache.                      *)
(***************************************************************************)
PriorityInputs == {"", "P4", "p0", " 1 ", "5", "-1", "abc"}

PriorityShapes ==
  {Event(EventTypeCreate, 1, <<1>>,
         [title |-> "t", description |-> "", type |-> "task", priority |-> p]) :
     p \in PriorityInputs}
  \cup {Event(EventTypeCreate, 1, <<1>>, [title |-> "t"])}
  \cup {NewUpdateEvent(<<1>>, 3, [priority |-> p]) : p \in PriorityInputs}

InitPriority ==
  /\ log \in SeqsUpTo({Marshal(e) : e \in PriorityShapes}, MaxLog)
  /\ logMtime = 1
  /\ cache = NoCache
  /\ clock = 1
  /\ pc = [p \in Procs |-> Idle]
  /\ tree = NoTree
  /\ hist = NoHist

SpecPriority == InitPriority /\ [][RebuildOp]_vars

\* C21: after every applied event of a replay, the priority of every issue
\* is one of 0, 1, 2, 3, 4, whatever priority strings the events carried.
C21_PriorityInRange ==
  hist.ran =>
    \A k \in 0..Len(Replayed(log)) :
      AppliedThrough(k) =>
        \A id \in DOMAIN TablesAfter(log, k).issues :
          TablesAfter(log, k).issues[id].priority \in 0..4

\* A create carrying "5" and an update carrying "-1": the issue has the
\* default priority.
C21_Witness ==
  /\ hist.ran
  /\ hist.err = NoErr
  /\ Len(log) = 2
  /\ log[1].event.Type = EventTypeCreate
  /\ GetStr(log[1].event.Payload, "priority") = "5"
  /\ log[2].event.Type = EventTypeUpdate
  /\ GetStr(log[2].event.Payload, "priority") = "-1"
  /\ cache.tables.issues[<<1>>].priority = DefaultPriority

(***************************************************************************)
(* A dep_add and the dep_rm of the same edge, applied one after the other  *)
(* to caches of up to two issues with up to MaxDeps dependency rows.       *)
(***************************************************************************)
DepIDs == {<<1>>, <<2>>}

DepTables(n) ==
  UNION {{[issues |-> [i \in ids |-> ReadyRow(StatusOpen)], deps |-> deps,
           renames |-> EmptyRenames] :
            deps \in SetsUpTo(ids \X ids \X {DepTypeBlocks, DepTypeParentChild}, n)} :
         ids \in SUBSET DepIDs}

InitDeps ==
  /\ log = <<>>
  /\ logMtime = 1
  /\ cache \in {[exists |-> TRUE, depType |-> TRUE, mtime |-> 1, tables |-> t] :
                  t \in DepTables(MaxDeps)}
  /\ clock = 1
  /\ pc = [p \in Procs |-> Idle]
  /\ tree = NoTree
  /\ hist = NoHist

\* The two events are applied to the cache; pc[1] keeps the edge, the tables
\* as they were before, and the error.
DepAddThenRemove ==
  \E a \in DepIDs, b \in DepIDs, t \in {"", DepTypeBlocks, DepTypeParentChild} :
    /\ pc[1].op = "idle"
    /\ cache' = [cache EXCEPT !.tables =
                   applyEvents(cache.tables, <<NewDepAddEvent(a, b, t, 3),
                                               NewDepRemoveEvent(a, b, t, 5)>>).db]
    /\ pc' = [pc EXCEPT ![1] =
                [Idle EXCEPT !.op = "dep_add, dep_rm",
                             !.queue = <<a, b, NormalizeDepType(t)>>,
                             !.seen = cache.tables,
                             !.err = applyEvents(cache.tables,
                                                 <<NewDepAddEvent(a, b, t, 3),
                                                   NewDepRemoveEvent(a, b, t, 5)>>).err]]
    /\ UNCHANGED <<log, logMtime, clock, tree, hist>>

SpecDeps == InitDeps /\ [][DepAddThenRemove]_vars

\* Both ends of the edge were issues of the cache the events were applied to.
EndsExist ==
  /\ pc[1].op = "dep_add, dep_rm"
  /\ pc[1].queue[1] \in DOMAIN pc[1].seen.issues
  /\ pc[1].queue[2] \in DOMAIN pc[1].seen.issues

\* C22 as stated: in a cache where a and b exist, dep_add(a,b,t) followed by
\* dep_rm(a,b,t) leaves the deps table as it was before the two events.
C22_AddRemoveRestores ==
  EndsExist => cache.tables.deps = pc[1].seen.deps

\* C22 amended: in a cache where a and b exist, dep_add(a,b,t) followed by
\* dep_rm(a,b,t) succeeds and leaves the deps table as it was before without
\* the row (a,b,t): as it was when the row was not there, one row smaller
\* when it was; the other rows, the issues and the renames are untouched.
C22_AddRemoveRemoves ==
  EndsExist =>
    /\ pc[1].err = NoErr
    /\ cache.tables.deps = pc[1].seen.deps \ {pc[1].queue}
    /\ pc[1].queue \notin pc[1].seen.deps => cache.tables.deps = pc[1].seen.deps
    /\ cache.tables.issues = pc[1].seen.issues
    /\ cache.tables.renames = pc[1].seen.renames

\* The edge 1 -> 2 of type blocks added to and removed from a cache that
\* holds the parent-child edge between the same issues.
C22_Witness ==
  /\ EndsExist
  /\ pc[1].queue = << <<1>>, <<2>>, DepTypeBlocks >>
  /\ pc[1].seen.deps = {<< <<1>>, <<2>>, DepTypeParentChild >>}
  /\ cache.tables.deps = pc[1].seen.deps

(***************************************************************************)
(* Comments: logs of a create, a dependency, a rename and comments with    *)
(* and without a body, for issues that exist and one that does not.        *)
(***************************************************************************)
CommentShapes ==
  {NewCreateEvent(<<1>>, "t", "", "task", 1, 2),
   NewDepAddEvent(<<1>>, <<1>>, DepTypeBlocks, 1),
   NewRenameEvent(<<1>>, <<2>>, 3),
   NewCommentEvent(<<1>>, "c", 5),
   NewCommentEvent(<<2>>, "c", 5),
   NewCommentEvent(<<3>>, "c", 5),
   NewCommentEvent(<<1>>, "", 5),
   NewCommentEvent(<<1>>, " ", 5),
   Event(EventTypeComment, 5, <<1>>, EmptyPayload)}

InitComment ==
  /\ log \in SeqsUpTo({Marshal(e) : e \in CommentShapes}, MaxLog)
  /\ logMtime = 1
  /\ cache = NoCache
  /\ clock = 1
  /\ pc = [p \in Procs |-> Idle]
  /\ tree = NoTree
  /\ hist = NoHist

SpecComment == InitComment /\ [][RebuildOp]_vars

\* C24: when the replay reaches a comment, the comment is applied and leaves
\* the issues, deps and renames tables exactly as they were if its body is
\* not blank and its issue resolves to an existing row, and the rebuild fails
\* at it, the tables as they were, otherwise.
C24_CommentChangesNothing ==
  hist.ran =>
    \A k \in 1..Len(Replayed(log)) :
      (AppliedThrough(k - 1) /\ Replayed(log)[k].Type = EventTypeComment) =>
        IF \/ GetStr(Replayed(log)[k].Payload, "body") \in {"", " "}
           \/ ~ResolvesToRow(TablesAfter(log, k - 1), Replayed(log)[k].IssueID)
        THEN /\ hist.at = k
             /\ hist.err # NoErr
             /\ cache.tables = TablesAfter(log, k - 1)
        ELSE /\ AppliedThrough(k)
             /\ TablesAfter(log, k) = TablesAfter(log, k - 1)

\* A comment addressed to the old id of a renamed issue, applied last: the
\* tables of the cache are those the create and the rename left.
C24_Witness ==
  /\ hist.ran
  /\ hist.err = NoErr
  /\ Len(Replayed(log)) = 3
  /\ Replayed(log)[2].Type = EventTypeRename
  /\ Replayed(log)[3].Type = EventTypeComment
  /\ Replayed(log)[3].IssueID = <<1>>
  /\ DOMAIN cache.tables.issues = {<<2>>}
  /\ cache.tables = TablesAfter(log, 2)

(***************************************************************************)
(* NextChildIssueID over caches of a parent 1, children 1.1, 1.2 and 1.01, *)
(* another issue 2, up to MaxDeps dependency rows and renames that lead to *)
(* existing issues.                                                        *)
(***************************************************************************)
ChildIDs == {<<1>>, <<1, 1>>, <<1, 2>>, <<1, ZeroPadded(1)>>, <<2>>}

ChildRenames ==
  {r \in UNION {[olds -> {<<1>>, <<2>>}] : olds \in SUBSET {<<1, 1>>, <<1, 2>>, <<3>>}} :
     <<3>> \in DOMAIN r => r[<<3>>] = <<1>>}

ChildEdges(ids) ==
  {e \in {<< <<1, 1>>, <<1>>, DepTypeParentChild >>,
          << <<1, 2>>, <<1>>, DepTypeParentChild >>,
          << <<1, ZeroPadded(1)>>, <<1>>, DepTypeParentChild >>,
          << <<1, 1>>, <<1>>, DepTypeBlocks >>,
          << <<1, 1>>, <<2>>, DepTypeParentChild >>} : e[1] \in ids /\ e[2] \in ids}

ChildTables(n) ==
  UNION {{[issues |-> [i \in ids |-> ReadyRow(StatusOpen)], deps |-> deps,
           renames |-> r] :
            deps \in SetsUpTo(ChildEdges(ids), n),
            r \in {x \in ChildRenames : \A old \in DOMAIN x : x[old] \in ids}} :
         ids \in SUBSET ChildIDs}

InitChild ==
  /\ log = <<>>
  /\ logMtime = 1
  /\ cache \in {[exists |-> TRUE, depType |-> TRUE, mtime |-> 1, tables |-> t] :
                  t \in ChildTables(MaxDeps)}
  /\ clock = 1
  /\ pc = [p \in Procs |-> Idle]
  /\ tree = NoTree
  /\ hist = NoHist

\* A caller asks for the next child id of a parent; pc[1] keeps the call
\* and what it returned.
NextChild ==
  \E parentID \in {<<1>>, <<2>>, <<3>>, <<1, 1>>} :
    /\ pc[1].op = "idle"
    /\ pc' = [pc EXCEPT ![1] =
                [Idle EXCEPT !.op = "NextChildIssueID",
                             !.queue = <<parentID>>,
                             !.events = <<NextChildIssueID(cache.tables, parentID).id>>,
                             !.err = NextChildIssueID(cache.tables, parentID).err]]
    /\ UNCHANGED <<log, logMtime, cache, clock, tree, hist>>

SpecChild == InitChild /\ [][NextChild]_vars

\* parent.n is an issue, or a rename source that leads elsewhere.
ChildTaken(db, parent, n) ==
  \/ Append(parent, n) \in DOMAIN db.issues
  \/ /\ Append(parent, n) \in DOMAIN db.renames
     /\ db.renames[Append(parent, n)] # Append(parent, n)

\* parent.n is the child end of a parent-child edge to parent.
ChildEdgeAt(db, parent, n) ==
  << Append(parent, n), parent, DepTypeParentChild >> \in db.deps

\* Some child end of a parent-child edge to parent is parent, a dot and a
\* text whose number is n.
ChildNumberUsed(db, parent, n) ==
  \E d \in db.deps :
    /\ d[3] = DepTypeParentChild
    /\ d[2] = parent
    /\ Len(d[1]) = Len(parent) + 1
    /\ SubSeq(d[1], 1, Len(parent)) = parent
    /\ d[1][Len(d[1])] \in {n, ZeroPadded(n)}

\* The call was for a parent that resolves to the existing issue `parent`.
ChildCallFor(parent) ==
  /\ pc[1].op = "NextChildIssueID"
  /\ ResolvesToRow(cache.tables, pc[1].queue[1])
  /\ parent = resolveIssueID(cache.tables, pc[1].queue[1]).id

\* C25 as stated: the call returns parent.N for the smallest positive N
\* such that parent.N is not the child end of a parent-child edge to the
\* parent, not a rename source and not an issue; it fails when the parent
\* does not resolve to an existing issue.
C25_SmallestFreeChild ==
  pc[1].op = "NextChildIssueID" =>
    /\ ~ResolvesToRow(cache.tables, pc[1].queue[1]) => pc[1].err # NoErr
    /\ \A parent \in DOMAIN cache.tables.issues :
         ChildCallFor(parent) =>
           /\ pc[1].err = NoErr
           /\ \E n \in 1..(Cardinality(ChildIDs) + 1) :
                /\ pc[1].events = <<Append(parent, n)>>
                /\ \A m \in 1..n :
                     (m = n) <=> ~(ChildEdgeAt(cache.tables, parent, m)
                                   \/ ChildTaken(cache.tables, parent, m))

\* C25 amended: the call returns parent.N for the smallest positive N that
\* is not the number of the suffix of a child end of a parent-child edge to
\* the parent (1 for the suffix "01" as for "1") and such that parent.N is
\* not a rename source and not an issue; it fails when the parent does not
\* resolve to an existing issue.
C25_SmallestUnusedNumber ==
  pc[1].op = "NextChildIssueID" =>
    /\ ~ResolvesToRow(cache.tables, pc[1].queue[1]) => pc[1].err # NoErr
    /\ \A parent \in DOMAIN cache.tables.issues :
         ChildCallFor(parent) =>
           /\ pc[1].err = NoErr
           /\ \E n \in 1..(Cardinality(ChildIDs) + 1) :
                /\ pc[1].events = <<Append(parent, n)>>
                /\ \A m \in 1..n :
                     (m = n) <=> ~(ChildNumberUsed(cache.tables, parent, m)
                                   \/ ChildTaken(cache.tables, parent, m))

\* 1.1 was renamed away and 1.2 is an issue: the call for the old name 3 of
\* the parent returns 1.3.
C25_Witness ==
  /\ pc[1].op = "NextChildIssueID"
  /\ pc[1].queue = << <<3>> >>
  /\ DOMAIN cache.tables.issues = {<<1>>, <<1, 2>>, <<2>>}
  /\ <<1, 1>> \in DOMAIN cache.tables.renames
  /\ << <<1, 2>>, <<1>>, DepTypeParentChild >> \in cache.tables.deps
  /\ pc[1].events = << <<1, 3>> >>
  /\ pc[1].err = NoErr

(***************************************************************************)
(* GenerateUniqueIssueID over hashes of MaxHash digits that share their    *)
(* first characters, and caches that hold some of the ids cut from them.   *)
(***************************************************************************)
\* The hash of k ones followed by twos ('1' is 49, '2' is 50).
HashOf(k, n) == [i \in 1..n |-> IF i <= k THEN 49 ELSE 50]

Hashes(n) == {HashOf(k, n) : k \in defaultIssueIDSuffixLength..n}

HashIDs(n) ==
  {issueIDFromHash(h, l) : h \in Hashes(n), l \in defaultIssueIDSuffixLength..n}

\* Some of the ids are issues; the shortest id may be the old name of the
\* next longer one.
HashTables(n) ==
  {[issues |-> [i \in ids |-> ReadyRow(StatusOpen)], deps |-> {}, renames |-> r] :
     ids \in SUBSET HashIDs(n),
     r \in {EmptyRenames,
            Put(EmptyRenames, issueIDFromHash(HashOf(n, n), defaultIssueIDSuffixLength),
                issueIDFromHash(HashOf(n, n), defaultIssueIDSuffixLength + 1))}}

InitGenerate ==
  /\ log = <<>>
  /\ logMtime = 1
  /\ cache \in {[exists |-> TRUE, depType |-> TRUE, mtime |-> 1, tables |-> t] :
                  t \in HashTables(MaxHash)}
  /\ clock = 1
  /\ pc = [p \in Procs |-> Idle]
  /\ tree = NoTree
  /\ hist = NoHist

\* A caller generates an id from a hash; pc[1] keeps the hash and what the
\* call returned.
Generate ==
  \E hash \in Hashes(MaxHash) :
    /\ pc[1].op = "idle"
    /\ pc' = [pc EXCEPT ![1] =
                [Idle EXCEPT !.op = "GenerateUniqueIssueID",
                             !.queue = <<hash>>,
                             !.events = <<GenerateUniqueIssueID(cache.tables,
                                                                HashCandidates(hash)).id>>,
                             !.err = GenerateUniqueIssueID(cache.tables,
                                                           HashCandidates(hash)).err]]
    /\ UNCHANGED <<log, logMtime, cache, clock, tree, hist>>

SpecGenerate == InitGenerate /\ [][Generate]_vars

\* exists_fn for the id of the first l characters of the hash of the call.
CutExists(l) ==
  ResolvesToRow(cache.tables, <<DigitsValue(SubSeq(pc[1].queue[1], 1, l), 0)>>)

\* C26: the call returns the id cut from the hash at the smallest length of
\* at least 3 for which exists_fn is false, and fails with the collision
\* error exactly when exists_fn is true at every length up to the full hash.
C26_ShortestFreePrefix ==
  pc[1].op = "GenerateUniqueIssueID" =>
    IF \A l \in 3..Len(pc[1].queue[1]) : CutExists(l)
    THEN pc[1].err = "issue id collision"
    ELSE /\ pc[1].err = NoErr
         /\ \E l \in 3..Len(pc[1].queue[1]) :
              /\ pc[1].events = << <<DigitsValue(SubSeq(pc[1].queue[1], 1, l), 0)>> >>
              /\ ~CutExists(l)
              /\ \A m \in 3..(l - 1) : CutExists(m)

\* Every id shorter than the full hash is taken, the shortest through a
\* rename: the call returns the id of the full hash.
C26_Witness ==
  /\ pc[1].op = "GenerateUniqueIssueID"
  /\ cache.tables.renames # EmptyRenames
  /\ pc[1].queue = <<HashOf(MaxHash, MaxHash)>>
  /\ <<111>> \notin DOMAIN cache.tables.issues
  /\ pc[1].events = <<issueIDFromHash(HashOf(MaxHash, MaxHash), MaxHash)>>
  /\ pc[1].err = NoErr

\* Every id of the hash is taken: the call fails.
C26_WitnessCollision ==
  /\ pc[1].op = "GenerateUniqueIssueID"
  /\ \A l \in 3..Len(pc[1].queue[1]) : CutExists(l)
  /\ pc[1].err = "issue id collision"

(***************************************************************************)
(* ListIssueHierarchy over every cache of up to four issues with up to     *)
(* MaxDeps + 1 parent-child rows among them, cycles, self-loops and        *)
(* several parents included, with and without blocks rows beside them.     *)
(***************************************************************************)
GraphIDs == {<<1>>, <<1, 10>>, <<1, 2>>, <<2>>}

\* The tables whose rows of type `walked` are any n or fewer, and whose
\* rows of type `other` are none or all.
GraphTables(all, n, walked, other) ==
  UNION {{[issues |-> [i \in ids |-> ReadyRow(StatusOpen)],
           deps |-> edges \cup rest, renames |-> EmptyRenames] :
            edges \in SetsUpTo(ids \X ids \X {walked}, n),
            rest \in {{}, ids \X ids \X {other}}} :
         ids \in SUBSET all}

InitList ==
  /\ log = <<>>
  /\ logMtime = 1
  /\ cache \in {[exists |-> TRUE, depType |-> TRUE, mtime |-> 1, tables |-> t] :
                  t \in GraphTables(GraphIDs, MaxDeps + 1, DepTypeParentChild,
                                   DepTypeBlocks)}
  /\ clock = 1
  /\ pc = [p \in Procs |-> Idle]
  /\ tree = NoTree
  /\ hist = NoHist

\* A caller lists the hierarchy; the items returned are kept in pc[1].
ListHierarchy ==
  /\ pc[1].op = "idle"
  /\ ~needsRebuild(logMtime, cache)
  /\ pc' = [pc EXCEPT ![1] = [Idle EXCEPT !.op = "ListIssueHierarchy",
                                          !.events = buildIssueHierarchy(cache.tables)]]
  /\ UNCHANGED <<log, logMtime, cache, clock, tree, hist>>

SpecList == InitList /\ [][ListHierarchy]_vars

Items == pc[1].events

PosOf(id) == CHOOSE i \in DOMAIN Items : Items[i].id = id

\* The issues that are the child end of a parent-child row to p.
ChildrenOf(p) ==
  {i \in DOMAIN cache.tables.issues : <<i, p, DepTypeParentChild>> \in cache.tables.deps}

Roots ==
  {i \in DOMAIN cache.tables.issues :
     ~\E d \in cache.tables.deps : d[3] = DepTypeParentChild /\ d[1] = i}

RECURSIVE Descendants(_)
Descendants(S) ==
  IF UNION {ChildrenOf(p) : p \in S} \subseteq S THEN S
  ELSE Descendants(S \cup UNION {ChildrenOf(p) : p \in S})

\* The issues the walk from the roots reaches.
Reached == Descendants(Roots)

\* The last position of the run of deeper items that follows position i.
BlockEnd(i) ==
  CHOOSE j \in i..Len(Items) :
    /\ \A k \in (i + 1)..j : Items[k].depth > Items[i].depth
    /\ j = Len(Items) \/ Items[j + 1].depth <= Items[i].depth

\* The positions of the items listed directly under position i.
DirectlyUnder(i) ==
  {k \in (i + 1)..BlockEnd(i) : Items[k].depth = Items[i].depth + 1}

\* C27: the listing holds every issue exactly once; the roots are at depth
\* 0 in ascending id order; the items directly under an issue, one level
\* deeper, are children of it in ascending id order, and every child of an
\* issue was emitted before the issue or lies in the run that follows it.
C27_DepthFirstListing ==
  pc[1].op = "ListIssueHierarchy" =>
    /\ Len(Items) = Cardinality(DOMAIN cache.tables.issues)
    /\ {Items[i].id : i \in DOMAIN Items} = DOMAIN cache.tables.issues
    /\ \A i \in DOMAIN Items : Items[i].id \in Roots => Items[i].depth = 0
    /\ \A i, j \in DOMAIN Items :
         (i < j /\ Items[i].id \in Roots /\ Items[j].id \in Roots) =>
           IDLess(Items[i].id, Items[j].id)
    /\ \A i \in DOMAIN Items :
         /\ Items[i].depth = 0 =>
              Items[i].id \in Roots \/ Items[i].id \notin Reached
         /\ i < Len(Items) => Items[i + 1].depth <= Items[i].depth + 1
         /\ \A k \in DirectlyUnder(i) : Items[k].id \in ChildrenOf(Items[i].id)
         /\ \A k, l \in DirectlyUnder(i) : k < l => IDLess(Items[k].id, Items[l].id)
         /\ \A c \in ChildrenOf(Items[i].id) : PosOf(c) <= BlockEnd(i)

\* An issue with two parents is listed once, under the first of them, and
\* an issue is listed two levels below a root.
C27_Witness ==
  /\ pc[1].op = "ListIssueHierarchy"
  /\ \E i \in DOMAIN Items : Items[i].depth = 2
  /\ \E c \in DOMAIN cache.tables.issues :
       \E a, b \in DOMAIN cache.tables.issues \ {c} :
         a # b /\ c \in ChildrenOf(a) /\ c \in ChildrenOf(b)

\* C28 as stated: every issue the walk from the roots does not reach is
\* listed after every reached issue, at depth 0, in ascending id order.
C28_UnreachedAtDepthZero ==
  pc[1].op = "ListIssueHierarchy" =>
    \A i \in DOMAIN Items :
      Items[i].id \notin Reached =>
        /\ Items[i].depth = 0
        /\ \A j \in DOMAIN Items : Items[j].id \in Reached => j < i
        /\ \A j \in DOMAIN Items :
             (j < i /\ Items[j].id \notin Reached) => IDLess(Items[j].id, Items[i].id)

\* C28: every issue the walk from the roots does not reach is listed, after
\* every reached issue; the first of them in id order is at depth 0, those
\* at depth 0 are in ascending id order, and each of the others is listed
\* one level below an unreached parent of it.
C28_UnreachedAppended ==
  pc[1].op = "ListIssueHierarchy" =>
    /\ \A u \in DOMAIN cache.tables.issues \ Reached :
         /\ \E i \in DOMAIN Items : Items[i].id = u
         /\ (\A v \in DOMAIN cache.tables.issues \ (Reached \cup {u}) : IDLess(u, v)) =>
              \E i \in DOMAIN Items : Items[i].id = u /\ Items[i].depth = 0
    /\ \A i \in DOMAIN Items :
         Items[i].id \notin Reached =>
           /\ \A j \in DOMAIN Items : Items[j].id \in Reached => j < i
           /\ \A j \in DOMAIN Items :
                (j < i /\ Items[j].id \notin Reached
                   /\ Items[j].depth = 0 /\ Items[i].depth = 0) =>
                  IDLess(Items[j].id, Items[i].id)
           /\ Items[i].depth > 0 =>
                \E j \in 1..(i - 1) :
                  /\ Items[j].id \notin Reached
                  /\ Items[j].depth = Items[i].depth - 1
                  /\ i \in DirectlyUnder(j)
                  /\ Items[i].id \in ChildrenOf(Items[j].id)

\* A root is listed, then the two members of a cycle: the first at depth 0
\* and the second under it.
C28_Witness ==
  /\ pc[1].op = "ListIssueHierarchy"
  /\ Reached # {}
  /\ \E i, j \in DOMAIN Items :
       /\ i < j
       /\ Items[i].id \notin Reached /\ Items[j].id \notin Reached
       /\ Items[i].depth = 0 /\ Items[j].depth = 1
       /\ Items[i].id \in ChildrenOf(Items[j].id)
       /\ Items[j].id \in ChildrenOf(Items[i].id)

(***************************************************************************)
(* DependencyTree over every cache of up to three issues with up to        *)
(* MaxDeps + 2 blocks rows among them, with and without parent-child rows  *)
(* beside them, and with a rename of the id 3 to the issue 1.              *)
(***************************************************************************)
TreeTables(n) ==
  {[t EXCEPT !.renames = r] :
     t \in GraphTables(ReadyIDs, n, DepTypeBlocks, DepTypeParentChild),
     r \in {EmptyRenames, Put(EmptyRenames, <<3>>, <<1>>)}}

InitTree ==
  /\ log = <<>>
  /\ logMtime = 1
  /\ cache \in {[exists |-> TRUE, depType |-> TRUE, mtime |-> 1, tables |-> t] :
                  t \in TreeTables(MaxDeps + 2)}
  /\ clock = 1
  /\ pc = [p \in Procs |-> Idle]
  /\ tree = NoTree
  /\ hist = NoHist

\* A caller asks for the dependency tree of an id; pc[1] keeps the id and
\* what the call returned.
DepTree ==
  \E id \in ReadyIDs \cup {<<3>>} :
    /\ pc[1].op = "idle"
    /\ ~needsRebuild(logMtime, cache)
    /\ pc' = [pc EXCEPT ![1] =
                [Idle EXCEPT !.op = "DependencyTree",
                             !.queue = <<id>>,
                             !.events = <<DependencyTree(cache.tables, id).node>>,
                             !.err = DependencyTree(cache.tables, id).err]]
    /\ UNCHANGED <<log, logMtime, cache, clock, tree, hist>>

SpecTree == InitTree /\ [][DepTree]_vars

\* The issues `id` depends on with type blocks.
BlockersOf(id) ==
  {i \in DOMAIN cache.tables.issues : <<id, i, DepTypeBlocks>> \in cache.tables.deps}

RECURSIVE BlockersClosure(_)
BlockersClosure(S) ==
  IF UNION {BlockersOf(i) : i \in S} \subseteq S THEN S
  ELSE BlockersClosure(S \cup UNION {BlockersOf(i) : i \in S})

\* The nodes of a tree in the order they were built: each with its id and
\* the ids of its children.
RECURSIVE Preorder(_), PreorderAll(_)
Preorder(node) ==
  <<[id |-> node.id, children |-> [i \in DOMAIN node.deps |-> node.deps[i].id]]>>
    \o PreorderAll(node.deps)

PreorderAll(nodes) ==
  IF nodes = <<>> THEN <<>> ELSE Preorder(Head(nodes)) \o PreorderAll(Tail(nodes))

TreeNodes == Preorder(pc[1].events[1])

TreeRoot == resolveIssueID(cache.tables, pc[1].queue[1]).id

\* C30: the tree of an existing issue holds exactly the issues reachable
\* from the root over blocks rows; the first node of an issue has all its
\* dependencies as children, each once, in id order, and every later node of
\* the issue has no children, so no issue is expanded twice.
C30_TreeCoversOnce ==
  (pc[1].op = "DependencyTree" /\ TreeRoot \in DOMAIN cache.tables.issues) =>
    /\ pc[1].err = NoErr
    /\ TreeNodes[1].id = TreeRoot
    /\ {TreeNodes[i].id : i \in DOMAIN TreeNodes} = BlockersClosure({TreeRoot})
    /\ \A i \in DOMAIN TreeNodes :
         IF \E j \in 1..(i - 1) : TreeNodes[j].id = TreeNodes[i].id
         THEN TreeNodes[i].children = <<>>
         ELSE TreeNodes[i].children = OrderByID(BlockersOf(TreeNodes[i].id))
    /\ \A i, j \in DOMAIN TreeNodes :
         (TreeNodes[i].id = TreeNodes[j].id
            /\ TreeNodes[i].children # <<>> /\ TreeNodes[j].children # <<>>) => i = j

\* An issue with dependencies is reached twice, through two different
\* nodes: its second node is a leaf.
C30_Witness ==
  /\ pc[1].op = "DependencyTree"
  /\ pc[1].err = NoErr
  /\ \E i, j \in DOMAIN TreeNodes :
       /\ i < j
       /\ TreeNodes[i].id = TreeNodes[j].id
       /\ TreeNodes[i].id # TreeRoot
       /\ TreeNodes[i].children # <<>>
       /\ TreeNodes[j].children = <<>>

\* The root lies on a cycle: its second node is a leaf.
C30_WitnessCycle ==
  /\ pc[1].op = "DependencyTree"
  /\ pc[1].err = NoErr
  /\ \E j \in 2..Len(TreeNodes) : TreeNodes[j].id = TreeRoot

(***************************************************************************)
(* The traversals step by step: one loop iteration, one call or one return *)
(* of resolveIssueID, resolveParentRoot, buildDepTree,                     *)
(* buildParentChildTree and buildIssueHierarchy at a time. pc[1].queue     *)
(* holds the locals of the running traversal:                              *)
(*   input   : the id the caller passed                                    *)
(*   phase   : "resolve", "root", "build", "hierarchy", "list", "returned" *)
(*   loop    : which loop of buildIssueHierarchy runs                      *)
(*   current : the loop variable of resolveIssueID and resolveParentRoot   *)
(*   call    : the argument of a recursive call about to start             *)
(*   visited : the visited map                                             *)
(*   stack   : the frames of the recursion, the innermost last             *)
(*   out, err: what the traversal returns                                  *)
(*   steps   : how many steps the traversal has taken                      *)
(***************************************************************************)
WalkOps ==
  {"resolveIssueID", "DependencyTree", "ParentChildTree", "GetIssueHierarchy",
   "ListIssueHierarchy"}

NoWalk ==
  [input |-> EmptyID, phase |-> "returned", loop |-> "roots", current |-> EmptyID,
   call |-> <<>>, visited |-> {}, stack |-> <<>>, out |-> <<>>, err |-> NoErr,
   steps |-> 0]

Walking(op, w) ==
  [Idle EXCEPT !.op = op, !.step = w.phase, !.queue = <<w>>, !.events = w.out,
               !.err = w.err]

\* The first statements of a traversal, up to its first loop.
startWalk(db, op, id) ==
  IF op = "ListIssueHierarchy"
  THEN [NoWalk EXCEPT !.phase = "list",
                      !.stack = <<[depth |-> 0, rest |-> listIssues(db)]>>]
  ELSE IF TrimSpace(id) = EmptyID
  THEN [NoWalk EXCEPT !.input = id, !.err = "issue id is required"]
  ELSE [NoWalk EXCEPT !.input = id, !.phase = "resolve", !.current = TrimSpace(id)]

\* What follows resolveIssueID in the traversal once it has returned
\* `resolved`.
afterResolve(op, w, resolved) ==
  CASE op = "resolveIssueID" ->
         [w EXCEPT !.phase = "returned", !.out = <<resolved>>]
    [] op = "DependencyTree" ->
         [w EXCEPT !.phase = "build", !.visited = {}, !.call = <<resolved>>]
    [] op = "ParentChildTree" ->
         [w EXCEPT !.phase = "root", !.visited = {}, !.current = resolved]
    [] OTHER ->
         [w EXCEPT !.phase = "hierarchy", !.current = resolved]

\* resolveIssueID: one iteration of the loop.
resolveStep(db, op, w) ==
  IF w.current \in w.visited
  THEN [w EXCEPT !.phase = "returned", !.err = "rename cycle detected"]
  ELSE IF lookupRename(db, w.current) = EmptyID
  THEN afterResolve(op, w, w.current)
  ELSE [w EXCEPT !.visited = @ \cup {w.current},
                 !.current = lookupRename(db, w.current)]

\* A variant of the loop of resolveParentRoot without the visited test.
rootStepUnguarded(db, w) ==
  IF getDeps(db, w.current, DepTypeParentChild) = <<>>
  THEN [w EXCEPT !.phase = "build", !.visited = {}, !.call = <<w.current>>]
  ELSE [w EXCEPT !.visited = @ \cup {w.current},
                 !.current = getDeps(db, w.current, DepTypeParentChild)[1]]

\* resolveParentRoot: one iteration of the loop; buildParentChildTree is
\* called with what it returns.
rootStep(db, w) ==
  IF w.current \in w.visited
  THEN [w EXCEPT !.phase = "build", !.visited = {}, !.call = <<w.current>>]
  ELSE IF getDeps(db, w.current, DepTypeParentChild) = <<>>
  THEN [w EXCEPT !.phase = "build", !.visited = {}, !.call = <<w.current>>]
  ELSE [w EXCEPT !.visited = @ \cup {w.current},
                 !.current = getDeps(db, w.current, DepTypeParentChild)[1]]

\* The ids buildDepTree and buildParentChildTree loop over.
walkChildren(db, op, id) ==
  IF op = "DependencyTree" THEN getDeps(db, id, DepTypeBlocks)
  ELSE getDependents(db, id, DepTypeParentChild)

\* A recursive call returns `node`: to the caller's loop, or to the caller
\* of the traversal.
deliver(w, node) ==
  IF w.stack = <<>> THEN [w EXCEPT !.phase = "returned", !.out = <<node>>]
  ELSE [w EXCEPT !.stack[Len(w.stack)].node.deps = Append(@, node)]

\* buildDepTree, buildParentChildTree: from the entry to the loop.
buildCall(db, op, w) ==
  IF w.call[1] \notin DOMAIN db.issues
  THEN [w EXCEPT !.phase = "returned", !.call = <<>>, !.out = <<NoNode>>,
                 !.err = "get issue"]
  ELSE IF w.call[1] \in w.visited
  THEN deliver([w EXCEPT !.call = <<>>], [id |-> w.call[1], deps |-> <<>>])
  ELSE [w EXCEPT !.call = <<>>,
                 !.visited = @ \cup {w.call[1]},
                 !.stack = Append(@, [node |-> [id |-> w.call[1], deps |-> <<>>],
                                      rest |-> walkChildren(db, op, w.call[1])])]

\* The loop takes its next id and calls.
buildLoop(w) ==
  [w EXCEPT !.call = <<Head(w.stack[Len(w.stack)].rest)>>,
            !.stack[Len(w.stack)].rest = Tail(@)]

\* The loop is over: return node.
buildReturn(w) ==
  deliver([w EXCEPT !.stack = SubSeq(@, 1, Len(@) - 1)], w.stack[Len(w.stack)].node)

\* buildIssueHierarchy: addIssue(id, depth) from the entry to the loop.
listCall(db, w, id, depth) ==
  IF id \in w.visited \/ id \notin DOMAIN db.issues THEN w
  ELSE [w EXCEPT !.visited = @ \cup {id},
                 !.out = Append(@, [id |-> id, depth |-> depth]),
                 !.stack = Append(@, [depth |-> depth + 1,
                                      rest |-> childrenByParent(db, id)])]

\* One iteration of the innermost running loop: of addIssue, of the loop
\* over the roots, or of the loop over the remaining issues.
listLoop(db, w, id, popped) ==
  IF Len(w.stack) = 1 /\ w.loop = "roots" /\ id \in childSet(db) THEN popped
  ELSE IF Len(w.stack) = 1 /\ w.loop = "rest" /\ id \in w.visited THEN popped
  ELSE listCall(db, popped, id, w.stack[Len(w.stack)].depth)

\* The innermost running loop is over.
listReturn(db, w) ==
  IF Len(w.stack) > 1 THEN [w EXCEPT !.stack = SubSeq(@, 1, Len(@) - 1)]
  ELSE IF w.loop = "roots"
  THEN [w EXCEPT !.loop = "rest", !.stack = <<[depth |-> 0, rest |-> listIssues(db)]>>]
  ELSE [w EXCEPT !.phase = "returned", !.stack = <<>>]

\* The rest of GetIssueHierarchy: its loops run over query results.
hierarchyStep(db, w) ==
  [w EXCEPT !.phase = "returned",
            !.out = <<[parents |-> GetIssueHierarchy(db, w.input).parents,
                       children |-> GetIssueHierarchy(db, w.input).children,
                       siblings |-> GetIssueHierarchy(db, w.input).siblings]>>,
            !.err = GetIssueHierarchy(db, w.input).err]

WalkIDs == {<<1>>, <<2>>}

\* The ids that name no issue; a rename table maps some of them.
WalkOldIDs == {<<3>>, <<4>>}

\* The two issues with up to n rows among them, as blocks rows, as
\* parent-child rows or as both; and, with each issue depending on the
\* other, every rename table of the old ids, cyclic ones included.
WalkTables(n) ==
  {[issues |-> [i \in WalkIDs |-> ReadyRow(StatusOpen)],
    deps |-> {<<e[1], e[2], t>> : e \in edges, t \in types},
    renames |-> EmptyRenames] :
      edges \in SetsUpTo(WalkIDs \X WalkIDs, n),
      types \in {{DepTypeBlocks}, {DepTypeParentChild},
                 {DepTypeBlocks, DepTypeParentChild}}}
  \cup
  UNION {{[issues |-> [i \in WalkIDs |-> ReadyRow(StatusOpen)],
           deps |-> {<<<<1>>, <<2>>, t>> : t \in {DepTypeBlocks, DepTypeParentChild}}
                      \cup {<<<<2>>, <<1>>, t>> :
                              t \in {DepTypeBlocks, DepTypeParentChild}},
           renames |-> r] : r \in [olds -> WalkOldIDs \cup {<<1>>}]} :
         olds \in SUBSET WalkOldIDs}

InitWalk ==
  /\ log = <<>>
  /\ logMtime = 1
  /\ cache \in {[exists |-> TRUE, depType |-> TRUE, mtime |-> 1, tables |-> t] :
                  t \in WalkTables(MaxDeps + 1)}
  /\ clock = 1
  /\ pc = [p \in Procs |-> Idle]
  /\ tree = NoTree
  /\ hist = NoHist

StartWalk ==
  \E op \in WalkOps, id \in WalkIDs \cup {<<3>>, EmptyID} :
    /\ pc[1].op = "idle"
    /\ ~needsRebuild(logMtime, cache)
    /\ pc' = [pc EXCEPT ![1] = Walking(op, startWalk(cache.tables, op, id))]
    /\ UNCHANGED <<log, logMtime, cache, clock, tree, hist>>

WalkStep(next) ==
  /\ pc' = [pc EXCEPT ![1] = Walking(pc[1].op, [next EXCEPT !.steps = @ + 1])]
  /\ UNCHANGED <<log, logMtime, cache, clock, tree, hist>>

ResolveStep ==
  /\ pc[1].step = "resolve"
  /\ WalkStep(resolveStep(cache.tables, pc[1].op, pc[1].queue[1]))

RootStep ==
  /\ pc[1].step = "root"
  /\ WalkStep(rootStep(cache.tables, pc[1].queue[1]))

BuildCall ==
  /\ pc[1].step = "build"
  /\ pc[1].queue[1].call # <<>>
  /\ WalkStep(buildCall(cache.tables, pc[1].op, pc[1].queue[1]))

BuildLoop ==
  /\ pc[1].step = "build"
  /\ pc[1].queue[1].call = <<>>
  /\ pc[1].queue[1].stack[Len(pc[1].queue[1].stack)].rest # <<>>
  /\ WalkStep(buildLoop(pc[1].queue[1]))

BuildReturn ==
  /\ pc[1].step = "build"
  /\ pc[1].queue[1].call = <<>>
  /\ pc[1].queue[1].stack[Len(pc[1].queue[1].stack)].rest = <<>>
  /\ WalkStep(buildReturn(pc[1].queue[1]))

HierarchyStep ==
  /\ pc[1].step = "hierarchy"
  /\ WalkStep(hierarchyStep(cache.tables, pc[1].queue[1]))

ListLoop ==
  /\ pc[1].step = "list"
  /\ pc[1].queue[1].stack[Len(pc[1].queue[1].stack)].rest # <<>>
  /\ WalkStep(listLoop(cache.tables, pc[1].queue[1],
                       Head(pc[1].queue[1].stack[Len(pc[1].queue[1].stack)].rest),
                       [pc[1].queue[1] EXCEPT
                          !.stack[Len(pc[1].queue[1].stack)].rest = Tail(@)]))

ListReturn ==
  /\ pc[1].step = "list"
  /\ pc[1].queue[1].stack[Len(pc[1].queue[1].stack)].rest = <<>>
  /\ WalkStep(listReturn(cache.tables, pc[1].queue[1]))

NextWalk ==
  \/ StartWalk
  \/ ResolveStep
  \/ RootStep
  \/ BuildCall
  \/ BuildLoop
  \/ BuildReturn
  \/ HierarchyStep
  \/ ListLoop
  \/ ListReturn

\* The traversal runs in one goroutine, which takes its next step whenever
\* it has one.
SpecWalk == InitWalk /\ [][NextWalk]_vars /\ WF_vars(NextWalk)

\* Step by step, a traversal returns what the function computes at once.
WalkAgrees ==
  pc[1].step = "returned" =>
    /\ pc[1].op = "resolveIssueID" =>
         /\ pc[1].err = resolveIssueID(cache.tables, pc[1].queue[1].input).err
         /\ pc[1].err = NoErr =>
              pc[1].events = <<resolveIssueID(cache.tables, pc[1].queue[1].input).id>>
    /\ pc[1].op = "DependencyTree" =>
         /\ pc[1].err = DependencyTree(cache.tables, pc[1].queue[1].input).err
         /\ pc[1].err = NoErr =>
              pc[1].events = <<DependencyTree(cache.tables, pc[1].queue[1].input).node>>
    /\ pc[1].op = "ListIssueHierarchy" =>
         pc[1].events = buildIssueHierarchy(cache.tables)

\* Under the fairness of SpecWalk a traversal that was started returns.
WalkReturns ==
  (pc[1].op \in WalkOps) ~> (pc[1].step = "returned")

\* A number of steps linear in the size of the tables: the loop of
\* resolveIssueID follows each rename at most once, the loop of
\* resolveParentRoot and the tree builders each dependency row at most once,
\* and buildIssueHierarchy passes each issue in at most three loops.
WalkBound ==
  Cardinality(DOMAIN cache.tables.renames) + 4 * Cardinality(cache.tables.deps)
    + 3 * Cardinality(DOMAIN cache.tables.issues) + 4

\* C29: on every cache state, those with cycles in the blocks rows, the
\* parent-child rows or the rename table included, a traversal that has not
\* returned has a next step, and it returns, a result or an error, within
\* WalkBound steps.
C29_TraversalsReturn ==
  pc[1].op \in WalkOps =>
    /\ pc[1].queue[1].steps <= WalkBound
    /\ pc[1].step # "returned" => ENABLED NextWalk

\* Each issue depends on the other with both types: a tree walk has
\* returned a tree that comes back to its root.
C29_Witness ==
  /\ pc[1].op \in {"DependencyTree", "ParentChildTree"}
  /\ pc[1].step = "returned"
  /\ pc[1].err = NoErr
  /\ Len(pc[1].events[1].deps) = 1
  /\ Len(pc[1].events[1].deps[1].deps) = 1
  /\ pc[1].events[1].deps[1].deps[1].id = pc[1].events[1].id

\* resolveIssueID has returned from a cycle of renames.
C29_WitnessRenames ==
  /\ pc[1].op = "resolveIssueID"
  /\ pc[1].step = "returned"
  /\ pc[1].err = "rename cycle detected"

\* The listing of a cache with a parent-child cycle has returned.
C29_WitnessList ==
  /\ pc[1].op = "ListIssueHierarchy"
  /\ pc[1].step = "returned"
  /\ \E i \in DOMAIN cache.tables.issues :
       <<i, i, DepTypeParentChild>> \in cache.tables.deps

(***************************************************************************)
(* ListIssueComments on logs of creates, a rename and comments written     *)
(* under the old id, the new id and the id of another issue, in and out of *)
(* timestamp order.                                                        *)
(***************************************************************************)
ListCommentShapes ==
  {NewCreateEvent(<<1>>, "t", "", "task", 1, 2),
   NewCreateEvent(<<3>>, "t", "", "task", 1, 2),
   NewRenameEvent(<<1>>, <<2>>, 3),
   NewRenameEvent(<<2>>, <<1>>, 4),
   NewCommentEvent(<<1>>, "a", 2),
   NewCommentEvent(<<1>>, "b", 5),
   NewCommentEvent(<<2>>, "c", 4),
   NewCommentEvent(<<3>>, "d", 5),
   NewCommentEvent(<<1>>, "", 5)}

InitListComments ==
  /\ log \in SeqsUpTo({Marshal(e) : e \in ListCommentShapes} \cup {EmptyLine}, MaxLog)
  /\ logMtime = 1
  /\ cache = NoCache
  /\ clock = 1
  /\ pc = [p \in Procs |-> Idle]
  /\ tree = NoTree
  /\ hist = NoHist

\* What the call returns once EnsureCache returned `ensured`.
listedComments(ensured, lines, id) ==
  IF ensured.err # NoErr THEN [comments |-> <<>>, err |-> ensured.err]
  ELSE ListIssueComments(ensured.cache.tables, lines, id)

\* A caller lists the comments of an id: EnsureCache builds the cache, and
\* pc[1] keeps the id and what the call returned.
ListComments ==
  \E id \in {<<1>>, <<2>>, <<3>>} :
    /\ pc[1].op = "idle"
    /\ cache' = EnsureCache(log, logMtime, cache, clock).cache
    /\ pc' = [pc EXCEPT ![1] =
                [Idle EXCEPT
                   !.op = "ListIssueComments",
                   !.queue = <<id>>,
                   !.events = listedComments(EnsureCache(log, logMtime, cache, clock),
                                             log, id).comments,
                   !.err = listedComments(EnsureCache(log, logMtime, cache, clock),
                                          log, id).err]]
    /\ UNCHANGED <<log, logMtime, clock, tree, hist>>

SpecListComments == InitListComments /\ [][ListComments]_vars

\* The events of the log in file order.
LogEvents == [i \in 1..Len(SelectSeq(log, LAMBDA l : l.kind = "json")) |->
                SelectSeq(log, LAMBDA l : l.kind = "json")[i].event]

\* The canonical id of an id in the cache.
Canonical(id) == resolveIssueID(cache.tables, id).id

\* The event is a comment for the issue the call asked for.
CommentOfRequested(e) ==
  /\ e.Type = EventTypeComment
  /\ resolveIssueID(cache.tables, e.IssueID).err = NoErr
  /\ Canonical(e.IssueID) = Canonical(pc[1].queue[1])

\* C31: a call that returns without error returns the comment events of the
\* log whose issue id resolves to the canonical id of the requested id, in
\* file order, each under the canonical id with its body and timestamp; and
\* the call returns without error whenever the rebuild succeeds and the ids
\* resolve.
C31_CommentsOfCanonical ==
  pc[1].op = "ListIssueComments" =>
    /\ pc[1].err = NoErr =>
         /\ Len(pc[1].events) = Len(SelectSeq(LogEvents, CommentOfRequested))
         /\ \A i \in DOMAIN pc[1].events :
              /\ pc[1].events[i].IssueID = Canonical(pc[1].queue[1])
              /\ pc[1].events[i].Body =
                   GetStr(SelectSeq(LogEvents, CommentOfRequested)[i].Payload, "body")
              /\ pc[1].events[i].Timestamp =
                   SelectSeq(LogEvents, CommentOfRequested)[i].Timestamp
    /\ (/\ Project(log).err = NoErr
        /\ \A i \in DOMAIN LogEvents :
             resolveIssueID(cache.tables, LogEvents[i].IssueID).err = NoErr
        /\ resolveIssueID(cache.tables, pc[1].queue[1]).err = NoErr) =>
         pc[1].err = NoErr

\* The issue was renamed after its comment was written, and the later
\* comment stands first in the file: both are returned, in file order, under
\* the new id, to a caller asking with the old id.
C31_Witness ==
  /\ pc[1].op = "ListIssueComments"
  /\ pc[1].err = NoErr
  /\ pc[1].queue = << <<1>> >>
  /\ Len(pc[1].events) = 1
  /\ pc[1].events[1].IssueID = <<2>>
  /\ pc[1].events[1].Body = "a"

\* Two comments out of timestamp order are returned in file order.
C31_WitnessOrder ==
  /\ pc[1].op = "ListIssueComments"
  /\ pc[1].err = NoErr
  /\ Len(pc[1].events) = 2
  /\ pc[1].events[1].Timestamp > pc[1].events[2].Timestamp

(***************************************************************************)
(* beads_import.go: the importer. A foreign timestamp is a string as in    *)
(* the log (0 is the missing one), a time.Time is the instant ParseTime    *)
(* gives, and formatTimestamp writes an instant in its one UTC spelling.   *)
(* A *int is the empty sequence for nil. The texts of the warnings are not *)
(* modelled, and the prefix is the one the caller passes.                  *)
(***************************************************************************)
beadsStatusTombstone == "tombstone"

importPriorityDefault == 2

parseTimestamp(value) == [time |-> ParseTime(value), ok |-> ParseOK(value)]

formatTimestamp(value) == 2 * value - 1

\* The first candidate that parses, or the fallback.
resolveTimestamp(values, fallback) ==
  LET valid == SelectSeq(values, ParseOK)
  IN IF valid # <<>>
     THEN [time |-> parseTimestamp(valid[1]).time,
           stamp |-> formatTimestamp(parseTimestamp(valid[1]).time)]
     ELSE [time |-> fallback, stamp |-> formatTimestamp(fallback)]

\* Lower case, trimmed, "-" replaced by "_"; anything unknown is open.
normalizeBeadsStatus(status) ==
  CASE status \in {StatusOpen, "Open"} -> StatusOpen
    [] status \in {StatusInProgress, "in-progress"} -> StatusInProgress
    [] status \in {StatusClosed, "Closed"} -> StatusClosed
    [] status = beadsStatusTombstone -> beadsStatusTombstone
    [] OTHER -> StatusOpen

normalizeBeadsPriority(priority) ==
  IF priority = <<>> THEN importPriorityDefault
  ELSE IF priority[1] < 0 THEN 0
  ELSE IF priority[1] > 4 THEN 4
  ELSE priority[1]

normalizeBeadsIssueType(issueType) ==
  IF issueType \in {"", " "} THEN "task" ELSE issueType

\* fmt.Sprintf("Author: %s\n%s", author, text) for the author and the text
\* of the model.
formatBeadsCommentBody(author, text) ==
  IF author \in {"", " "} THEN text
  ELSE IF text = "a" THEN "Author: ann\na"
  ELSE "Author: ann\n"

\* The lines for the close reason and the deletion time, joined; the fields
\* delete_reason and deleted_by are empty in the model.
buildBeadsReasonComment(issue) ==
  IF issue.CloseReason \notin {"", " "}
  THEN IF issue.DeletedAt # 0 THEN "Close reason: done\nDeleted at: t"
       ELSE "Close reason: done"
  ELSE IF issue.DeletedAt # 0 THEN "Deleted at: t"
  ELSE ""

ImportEvent(event, sortTime, order) ==
  [Event |-> event, SortTime |-> sortTime, Order |-> order]

buildBeadsCreateEvent(issue, now) ==
  LET created == resolveTimestamp(<<issue.CreatedAt, issue.UpdatedAt>>, now)
  IN ImportEvent(NewCreateEvent(issue.ID, issue.Title, issue.Description,
                                normalizeBeadsIssueType(issue.IssueType),
                                created.stamp,
                                normalizeBeadsPriority(issue.Priority)),
                 created.time, 0)

\* The events of one dependency record: none, or one dep_add.
dependencyEvent(issue, importedIDs, now, dep) ==
  LET issueID == IF TrimSpace(dep.IssueID) = EmptyID THEN issue.ID
                 ELSE TrimSpace(dep.IssueID)
      dependsOn == TrimSpace(dep.DependsOnID)
      at == resolveTimestamp(<<dep.CreatedAt, issue.UpdatedAt, issue.CreatedAt>>, now)
  IN IF dependsOn = EmptyID THEN <<>>
     ELSE IF dep.DepType \notin {DepTypeBlocks, DepTypeParentChild} THEN <<>>
     ELSE IF issueID \notin importedIDs \/ dependsOn \notin importedIDs THEN <<>>
     ELSE <<ImportEvent(NewDepAddEvent(issueID, dependsOn, dep.DepType, at.stamp),
                        at.time, 1)>>

RECURSIVE buildBeadsDependencyEventsFrom(_, _, _, _)
buildBeadsDependencyEventsFrom(issue, importedIDs, now, i) ==
  IF i > Len(issue.Dependencies) THEN <<>>
  ELSE dependencyEvent(issue, importedIDs, now, issue.Dependencies[i])
       \o buildBeadsDependencyEventsFrom(issue, importedIDs, now, i + 1)

buildBeadsDependencyEvents(issue, importedIDs, now) ==
  buildBeadsDependencyEventsFrom(issue, importedIDs, now, 1)

\* The events of one comment record: none, or one comment.
commentEvent(issue, now, comment) ==
  LET at == resolveTimestamp(<<comment.CreatedAt, issue.UpdatedAt, issue.CreatedAt>>,
                             now)
  IN IF comment.Text \in {"", " "} THEN <<>>
     ELSE <<ImportEvent(NewCommentEvent(issue.ID,
                                        formatBeadsCommentBody(comment.Author,
                                                               comment.Text),
                                        at.stamp),
                        at.time, 2)>>

RECURSIVE commentEventsFrom(_, _, _)
commentEventsFrom(issue, now, i) ==
  IF i > Len(issue.Comments) THEN <<>>
  ELSE commentEvent(issue, now, issue.Comments[i])
       \o commentEventsFrom(issue, now, i + 1)

buildBeadsCommentEvents(issue, now) ==
  LET at == resolveTimestamp(<<issue.ClosedAt, issue.DeletedAt, issue.UpdatedAt,
                               issue.CreatedAt>>, now)
  IN commentEventsFrom(issue, now, 1)
     \o (IF buildBeadsReasonComment(issue) # ""
         THEN <<ImportEvent(NewCommentEvent(issue.ID, buildBeadsReasonComment(issue),
                                            at.stamp),
                            at.time, 2)>>
         ELSE <<>>)

buildBeadsStatusEvents(issue, now) ==
  LET statusAt == resolveTimestamp(<<issue.UpdatedAt, issue.CreatedAt>>, now)
      closeAt == resolveTimestamp(<<issue.ClosedAt, issue.DeletedAt, issue.UpdatedAt,
                                    issue.CreatedAt>>, now)
  IN IF issue.Status = StatusInProgress
     THEN <<ImportEvent(NewStatusEvent(issue.ID, StatusInProgress, statusAt.stamp),
                        statusAt.time, 3)>>
     ELSE IF issue.Status \in {StatusClosed, beadsStatusTombstone}
     THEN <<ImportEvent(NewCloseEvent(issue.ID, closeAt.stamp), closeAt.time, 4)>>
     ELSE <<>>

\* A comparator that leaves the kind of the event out.
importLessNoOrder(left, right) ==
  IF left.SortTime = right.SortTime
  THEN IDLess(left.Event.IssueID, right.Event.IssueID)
  ELSE left.SortTime < right.SortTime

\* sortImportEvents: the comparator handed to sort.SliceStable.
importLess(left, right) ==
  IF left.SortTime = right.SortTime
  THEN IF left.Order = right.Order
       THEN IDLess(left.Event.IssueID, right.Event.IssueID)
       ELSE left.Order < right.Order
  ELSE left.SortTime < right.SortTime

RECURSIVE importSiftDown(_, _)
importSiftDown(s, j) ==
  IF j > 1 /\ importLess(s[j], s[j - 1])
  THEN importSiftDown(Swap(s, j, j - 1), j - 1) ELSE s

RECURSIVE importInsertionSort(_, _)
importInsertionSort(s, i) ==
  IF i > Len(s) THEN s ELSE importInsertionSort(importSiftDown(s, i), i + 1)

sortImportEvents(events) == importInsertionSort(events, 2)

BeadsImportResult(total, imported, skipped, tombstones, planned, written) ==
  [IssuesTotal |-> total, IssuesImported |-> imported, IssuesSkipped |-> skipped,
   TombstonesSkipped |-> tombstones, EventsPlanned |-> planned,
   EventsWritten |-> written]

NoPlan(err) == [Events |-> <<>>, Result |-> BeadsImportResult(0, 0, 0, 0, 0, 0),
                err |-> err]

\* The filter with nothing imported and nothing skipped yet.
NoneFiltered == [importedIDs |-> {}, imported |-> <<>>, skipped |-> 0, tombstones |-> 0]

\* A filter that counts a skipped tombstone as a tombstone only.
filterIssueTombstoneOnly(st, issue, includeTombstones) ==
  LET issueID == TrimSpace(issue.ID)
      status == normalizeBeadsStatus(issue.Status)
  IN IF issueID = EmptyID THEN [st EXCEPT !.skipped = @ + 1]
     ELSE IF issueID \in st.importedIDs THEN [st EXCEPT !.skipped = @ + 1]
     ELSE IF status = beadsStatusTombstone /\ ~includeTombstones
     THEN [st EXCEPT !.tombstones = @ + 1]
     ELSE IF issue.Title \in {"", " "} THEN [st EXCEPT !.skipped = @ + 1]
     ELSE [st EXCEPT !.importedIDs = @ \cup {issueID},
                     !.imported = Append(@, [issue EXCEPT !.ID = issueID,
                                                          !.Status = status])]

\* buildBeadsImportPlan: one pass of the loop that filters the issues.
filterIssue(st, issue, includeTombstones) ==
  LET issueID == TrimSpace(issue.ID)
      status == normalizeBeadsStatus(issue.Status)
  IN IF issueID = EmptyID THEN [st EXCEPT !.skipped = @ + 1]
     ELSE IF issueID \in st.importedIDs THEN [st EXCEPT !.skipped = @ + 1]
     ELSE IF status = beadsStatusTombstone /\ ~includeTombstones
     THEN [st EXCEPT !.tombstones = @ + 1, !.skipped = @ + 1]
     ELSE IF issue.Title \in {"", " "} THEN [st EXCEPT !.skipped = @ + 1]
     ELSE [st EXCEPT !.importedIDs = @ \cup {issueID},
                     !.imported = Append(@, [issue EXCEPT !.ID = issueID,
                                                          !.Status = status])]

RECURSIVE filterIssues(_, _, _, _)
filterIssues(st, issues, includeTombstones, i) ==
  IF i > Len(issues) THEN st
  ELSE filterIssues(filterIssue(st, issues[i], includeTombstones), issues,
                    includeTombstones, i + 1)

\* The events of one bucket, issue by issue, before the sort.
RECURSIVE bucketFrom(_, _, _, _, _)
bucketFrom(bucket, imported, importedIDs, now, i) ==
  IF i > Len(imported) THEN <<>>
  ELSE (CASE bucket = "create" -> <<buildBeadsCreateEvent(imported[i], now)>>
          [] bucket = "depAndComment" ->
               buildBeadsDependencyEvents(imported[i], importedIDs, now)
               \o buildBeadsCommentEvents(imported[i], now)
          [] OTHER -> buildBeadsStatusEvents(imported[i], now))
       \o bucketFrom(bucket, imported, importedIDs, now, i + 1)

EventsOf(importEvents) == [i \in 1..Len(importEvents) |-> importEvents[i].Event]

\* The plan once the filter returned st.
planFiltered(st, total, now) ==
  LET events ==
        EventsOf(sortImportEvents(bucketFrom("create", st.imported,
                                             st.importedIDs, now, 1)))
        \o EventsOf(sortImportEvents(bucketFrom("depAndComment", st.imported,
                                                st.importedIDs, now, 1)))
        \o EventsOf(sortImportEvents(bucketFrom("status", st.imported,
                                                st.importedIDs, now, 1)))
  IN IF Len(st.imported) = 0 THEN NoPlan("no issues to import")
     ELSE [Events |-> events,
           Result |-> BeadsImportResult(total, Len(st.imported), st.skipped,
                                        st.tombstones, Len(events), 0),
           err |-> NoErr]

buildBeadsImportPlan(issues, includeTombstones, now) ==
  planFiltered(filterIssues(NoneFiltered, issues, includeTombstones, 1),
               Len(issues), now)

\* loadBeadsIssues: the records of the export that carry an id.
loadBeadsIssues(records) ==
  LET issues == SelectSeq(records, LAMBDA r : TrimSpace(r.ID) # EmptyID)
  IN IF issues = <<>> THEN [issues |-> <<>>, err |-> "no beads issues found"]
     ELSE [issues |-> issues, err |-> NoErr]

PlanBeadsImport(records, includeTombstones, now) ==
  IF loadBeadsIssues(records).err # NoErr THEN NoPlan(loadBeadsIssues(records).err)
  ELSE buildBeadsImportPlan(loadBeadsIssues(records).issues, includeTombstones, now)

\* ApplyBeadsImportPlan: the log after the appends, and what RebuildCache
\* made of it at time `at`.
ApplyBeadsImportPlan(lines, c, plan, at) ==
  LET written == lines \o Marshalled(plan.Events)
      rebuilt == RebuildCache(written, c, at)
  IN [log |-> written, cache |-> rebuilt.cache, err |-> rebuilt.err,
      Result |-> IF rebuilt.err # NoErr THEN BeadsImportResult(0, 0, 0, 0, 0, 0)
                 ELSE [plan.Result EXCEPT !.EventsWritten = Len(plan.Events)]]

(***************************************************************************)
(* The import scenario: an export of at most MaxIssues records is planned, *)
(* and the plan is applied to a project that was just initialised.         *)
(***************************************************************************)
BeadsIssue(id, title, status, createdAt, updatedAt, closedAt, deletedAt, closeReason,
           dependencies, comments) ==
  [ID |-> id, Title |-> title, Description |-> "", Status |-> status,
   Priority |-> IF status = "Open" THEN <<>> ELSE IF status = "Closed" THEN <<7>>
                ELSE <<1>>,
   IssueType |-> "", CreatedAt |-> createdAt, UpdatedAt |-> updatedAt,
   ClosedAt |-> closedAt, CloseReason |-> closeReason, DeletedAt |-> deletedAt,
   Dependencies |-> dependencies, Comments |-> comments]

BeadsDependency(issueID, dependsOn, depType, createdAt) ==
  [IssueID |-> issueID, DependsOnID |-> dependsOn, DepType |-> depType,
   CreatedAt |-> createdAt]

BeadsComment(author, text, createdAt) ==
  [Author |-> author, Text |-> text, CreatedAt |-> createdAt]

\* The records of issue id, whose dependencies point at issue other.
BeadsShapes(id, other) ==
  {BeadsIssue(id, "t", StatusOpen, 3, 0, 0, 0, "", <<>>, <<>>),
   BeadsIssue(id, "t", "Open", 0, 0, 0, 0, "", <<>>, <<>>),
   BeadsIssue(id, "t", "in-progress", 3, 6, 0, 0, "", <<>>, <<>>),
   BeadsIssue(id, "t", StatusClosed, 3, 0, 7, 0, "done", <<>>, <<>>),
   BeadsIssue(id, "t", "Closed", 4, 0, 0, 0, "", <<>>, <<>>),
   BeadsIssue(id, "t", beadsStatusTombstone, 0, 0, 0, 3, "", <<>>, <<>>),
   BeadsIssue(id, "t", beadsStatusTombstone, 1, 0, 0, 5, "", <<>>, <<>>),
   BeadsIssue(id, "", StatusOpen, 3, 0, 0, 0, "", <<>>, <<>>),
   BeadsIssue(id, "t", StatusOpen, 3, 0, 0, 0, "",
              <<BeadsDependency(id, other, DepTypeBlocks, 5)>>,
              <<BeadsComment("", "a", 6)>>),
   BeadsIssue(id, "t", StatusOpen, 3, 0, 0, 0, "",
              <<BeadsDependency(EmptyID, other, DepTypeParentChild, 0),
                BeadsDependency(id, other, "relates-to", 5)>>,
              <<BeadsComment("ann", "a", 5), BeadsComment("", " ", 5)>>),
   BeadsIssue(id, "t", StatusOpen, 0, 0, 0, 0, "",
              <<BeadsDependency(id, other, DepTypeBlocks, 1)>>, <<>>)}

BeadsRecords ==
  BeadsShapes(<<1>>, <<2>>) \cup BeadsShapes(<<2>>, <<1>>)
  \cup {BeadsIssue(<<Blank>>, "t", StatusOpen, 3, 0, 0, 0, "", <<>>, <<>>)}

\* The export, the flag and the time options.Now returns; no plan yet.
NoImport == [phase |-> "import", records |-> <<>>, includeTombstones |-> FALSE,
             now |-> 5, plan |-> NoPlan(NoErr),
             Result |-> BeadsImportResult(0, 0, 0, 0, 0, 0)]

InitImport ==
  /\ log = <<>>
  /\ logMtime = 1
  /\ cache = Project(<<>>).cache
  /\ clock = 1
  /\ pc = [p \in Procs |-> Idle]
  /\ tree \in {[NoImport EXCEPT !.records = r, !.includeTombstones = t] :
                 r \in SeqsUpTo(BeadsRecords, MaxIssues), t \in BOOLEAN}
  /\ hist = NoHist

\* PlanBeadsImport on the export; pc[1] keeps the planned events and the
\* error, the tree the summary.
PlanImport ==
  /\ pc[1].op = "idle"
  /\ pc' = [pc EXCEPT ![1] =
              [Idle EXCEPT
                 !.op = "PlanBeadsImport",
                 !.queue = PlanBeadsImport(tree.records, tree.includeTombstones,
                                           tree.now).Events,
                 !.err = PlanBeadsImport(tree.records, tree.includeTombstones,
                                         tree.now).err]]
  /\ tree' = [tree EXCEPT !.plan = PlanBeadsImport(tree.records,
                                                   tree.includeTombstones, tree.now),
                          !.Result = PlanBeadsImport(tree.records,
                                                     tree.includeTombstones,
                                                     tree.now).Result]
  /\ UNCHANGED <<log, logMtime, cache, clock, hist>>

\* ApplyBeadsImportPlan with the plan that was returned.
ApplyImport ==
  /\ pc[1].op = "PlanBeadsImport"
  /\ pc[1].err = NoErr
  /\ log' = ApplyBeadsImportPlan(log, cache, tree.plan, clock).log
  /\ logMtime' = clock
  /\ cache' = ApplyBeadsImportPlan(log, cache, tree.plan, clock).cache
  /\ pc' = [pc EXCEPT ![1] =
              [@ EXCEPT !.op = "ApplyBeadsImportPlan",
                        !.err = ApplyBeadsImportPlan(log, cache, tree.plan, clock).err]]
  /\ tree' = [tree EXCEPT !.Result = ApplyBeadsImportPlan(log, cache, tree.plan,
                                                          clock).Result]
  /\ UNCHANGED <<clock, hist>>

NextImport == PlanImport \/ ApplyImport

SpecImport == InitImport /\ [][NextImport]_vars

\* Record i of the export is imported: it has an id and a title, it is no
\* tombstone unless tombstones are included, and no imported record before
\* it has its id.
RECURSIVE RecordImported(_)
RecordImported(i) ==
  /\ TrimSpace(tree.records[i].ID) # EmptyID
  /\ tree.records[i].Title \notin {"", " "}
  /\ \/ normalizeBeadsStatus(tree.records[i].Status) # beadsStatusTombstone
     \/ tree.includeTombstones
  /\ ~\E j \in 1..(i - 1) :
        /\ TrimSpace(tree.records[j].ID) = TrimSpace(tree.records[i].ID)
        /\ RecordImported(j)

\* The status an imported record must end with.
ForeignStatus(record) ==
  IF normalizeBeadsStatus(record.Status) \in {StatusClosed, beadsStatusTombstone}
  THEN StatusClosed
  ELSE normalizeBeadsStatus(record.Status)

\* The cache holds the imported records with their status and the planned
\* edges.
ForeignStateRecreated ==
  /\ \A i \in DOMAIN tree.records :
       RecordImported(i) =>
         /\ TrimSpace(tree.records[i].ID) \in DOMAIN cache.tables.issues
         /\ cache.tables.issues[TrimSpace(tree.records[i].ID)].status =
              ForeignStatus(tree.records[i])
  /\ \A i \in DOMAIN pc[1].queue :
       pc[1].queue[i].Type = EventTypeDepAdd =>
         <<pc[1].queue[i].IssueID, GetID(pc[1].queue[i].Payload, "depends_on"),
           GetStr(pc[1].queue[i].Payload, "dep_type")>> \in cache.tables.deps

\* C32: applying a plan that PlanBeadsImport returned to a freshly
\* initialised project rebuilds the cache without error, every imported
\* issue ends with its foreign status (closed for closed and tombstone
\* records) and every planned dependency edge is in the cache.
C32_ImportRecreates ==
  pc[1].op = "ApplyBeadsImportPlan" =>
    /\ pc[1].err = NoErr
    /\ ForeignStateRecreated

\* What does hold: an import whose rebuild succeeds recreates the state.
ImportRecreatesWhenRebuilt ==
  (pc[1].op = "ApplyBeadsImportPlan" /\ pc[1].err = NoErr) => ForeignStateRecreated

\* The one record of the export is a tombstone with deleted_at and no
\* created_at, tombstones are included, and the rebuild fails.
ImportOfTombstoneFails ==
  /\ pc[1].op = "ApplyBeadsImportPlan"
  /\ Len(tree.records) = 1
  /\ tree.records[1].Status = beadsStatusTombstone
  /\ tree.records[1].CreatedAt = 0
  /\ pc[1].err # NoErr

\* A plan was returned, and pc[1].queue holds its events.
Planned == pc[1].op \in {"PlanBeadsImport", "ApplyBeadsImportPlan"} /\ tree.plan.err = NoErr

\* The bucket of a planned event, and its place among events of one time.
BucketOf(event) ==
  CASE event.Type = EventTypeCreate -> 1
    [] event.Type \in {EventTypeDepAdd, EventTypeComment} -> 2
    [] OTHER -> 3

KindOrder(event) ==
  CASE event.Type = EventTypeCreate -> 0
    [] event.Type = EventTypeDepAdd -> 1
    [] event.Type = EventTypeComment -> 2
    [] event.Type = EventTypeStatus -> 3
    [] OTHER -> 4

BucketsInOrder ==
  \A i, j \in DOMAIN pc[1].queue :
    i < j => BucketOf(pc[1].queue[i]) <= BucketOf(pc[1].queue[j])

\* a stands rightly before b by timestamp then issue id.
ByTimeThenID(a, b) ==
  \/ ParseTime(a.Timestamp) < ParseTime(b.Timestamp)
  \/ /\ ParseTime(a.Timestamp) = ParseTime(b.Timestamp)
     /\ ~IDLess(b.IssueID, a.IssueID)

\* a stands rightly before b by timestamp, then kind, then issue id.
ByTimeKindThenID(a, b) ==
  \/ ParseTime(a.Timestamp) < ParseTime(b.Timestamp)
  \/ /\ ParseTime(a.Timestamp) = ParseTime(b.Timestamp)
     /\ \/ KindOrder(a) < KindOrder(b)
        \/ KindOrder(a) = KindOrder(b) /\ ~IDLess(b.IssueID, a.IssueID)

\* C33 as stated: in every plan the creates precede the dep_adds and
\* comments, which precede the status updates and closes, and each of the
\* three buckets is sorted by event timestamp, then issue id.
C33_BucketsByTimeThenID ==
  Planned =>
    /\ BucketsInOrder
    /\ \A i, j \in DOMAIN pc[1].queue :
         (i < j /\ BucketOf(pc[1].queue[i]) = BucketOf(pc[1].queue[j])) =>
           ByTimeThenID(pc[1].queue[i], pc[1].queue[j])

\* C33 amended: in every plan the creates precede the dep_adds and comments,
\* which precede the status updates and closes, and each of the three
\* buckets is sorted by event timestamp, then kind (dep_add before comment,
\* status_update before close), then issue id.
C33_BucketsByTimeKindThenID ==
  Planned =>
    /\ BucketsInOrder
    /\ \A i, j \in DOMAIN pc[1].queue :
         (i < j /\ BucketOf(pc[1].queue[i]) = BucketOf(pc[1].queue[j])) =>
           ByTimeKindThenID(pc[1].queue[i], pc[1].queue[j])

\* A plan in which the dep_add of issue 2 and the comment of issue 1 carry
\* the same time: the dep_add stands first.
C33_Witness ==
  /\ Planned
  /\ \E i, j \in DOMAIN pc[1].queue :
       /\ i < j
       /\ pc[1].queue[i].Type = EventTypeDepAdd
       /\ pc[1].queue[j].Type = EventTypeComment
       /\ pc[1].queue[i].IssueID = <<2>>
       /\ pc[1].queue[j].IssueID = <<1>>
       /\ ParseTime(pc[1].queue[i].Timestamp) = ParseTime(pc[1].queue[j].Timestamp)

\* A plan with all three buckets filled.
C33_WitnessBuckets ==
  /\ Planned
  /\ {BucketOf(pc[1].queue[i]) : i \in DOMAIN pc[1].queue} = {1, 2, 3}
  /\ \E i, j \in DOMAIN pc[1].queue :
       /\ BucketOf(pc[1].queue[i]) = 2 /\ BucketOf(pc[1].queue[j]) = 3
       /\ ParseTime(pc[1].queue[j].Timestamp) < ParseTime(pc[1].queue[i].Timestamp)

\* The positions of the create events of the plan for an id.
CreatesFor(id) ==
  {k \in DOMAIN tree.plan.Events :
     tree.plan.Events[k].Type = EventTypeCreate /\ tree.plan.Events[k].IssueID = id}

\* The records the export holds under an id, blank ones left out as
\* loadBeadsIssues leaves them out.
RecordsRead == {i \in DOMAIN tree.records : TrimSpace(tree.records[i].ID) # EmptyID}

\* C34: in every plan issues_imported + issues_skipped = issues_total, the
\* plan holds exactly one create event for every imported record and none
\* for the id of a record that was skipped.
C34_CountsAndCreates ==
  Planned =>
    /\ tree.plan.Result.IssuesImported + tree.plan.Result.IssuesSkipped =
         tree.plan.Result.IssuesTotal
    /\ tree.plan.Result.IssuesTotal = Cardinality(RecordsRead)
    /\ tree.plan.Result.IssuesImported =
         Cardinality({i \in RecordsRead : RecordImported(i)})
    /\ Cardinality({k \in DOMAIN tree.plan.Events :
                      tree.plan.Events[k].Type = EventTypeCreate}) =
         tree.plan.Result.IssuesImported
    /\ \A i \in RecordsRead :
         IF \E j \in RecordsRead :
              /\ RecordImported(j)
              /\ TrimSpace(tree.records[j].ID) = TrimSpace(tree.records[i].ID)
         THEN Cardinality(CreatesFor(TrimSpace(tree.records[i].ID))) = 1
         ELSE CreatesFor(TrimSpace(tree.records[i].ID)) = {}

\* A plan for an export of an open issue and a tombstone that was skipped.
C34_Witness ==
  /\ Planned
  /\ tree.plan.Result.IssuesTotal = 2
  /\ tree.plan.Result.IssuesImported = 1
  /\ tree.plan.Result.TombstonesSkipped = 1
  /\ Len(tree.records) = 2
  /\ CreatesFor(TrimSpace(tree.records[1].ID)) = {}

\* A plan for an export that holds the same id twice.
C34_WitnessDuplicate ==
  /\ Planned
  /\ Len(tree.records) = 2
  /\ tree.records[1].ID = tree.records[2].ID
  /\ tree.plan.Result.IssuesImported = 1
  /\ tree.plan.Result.TombstonesSkipped = 0

(***************************************************************************)
(* Replay order of logs that mix parseable and unparseable timestamps,     *)
(* read off the order RebuildCache replayed (SpecOrder).                   *)
(***************************************************************************)
\* The timestamp of the line replayed at position p.
ReplayedStamp(p) == LoadEvents(log).events[hist.order[p]].Timestamp

\* C35: in the order in which RebuildCache applies the events of a log that
\* mixes parseable and unparseable timestamps, two events with parseable,
\* different timestamps stand in ascending timestamp order, events with
\* unparseable timestamps keep their file order among themselves, and the
\* order is a function of the log.
C35_ParseableHonoured ==
  (hist.ran /\ LoadEvents(log).err = NoErr) =>
    /\ hist.order = sortOrder(LoadEvents(log).events)
    /\ \A p, q \in DOMAIN hist.order :
         p < q =>
           /\ (/\ ParseOK(ReplayedStamp(p)) /\ ParseOK(ReplayedStamp(q))
               /\ ParseTime(ReplayedStamp(p)) # ParseTime(ReplayedStamp(q))) =>
                ParseTime(ReplayedStamp(p)) < ParseTime(ReplayedStamp(q))
           /\ (~ParseOK(ReplayedStamp(p)) /\ ~ParseOK(ReplayedStamp(q))) =>
                hist.order[p] < hist.order[q]

\* What does hold: events with unparseable timestamps are replayed in file
\* order among themselves.
UnparseableKeepFileOrder ==
  (hist.ran /\ LoadEvents(log).err = NoErr) =>
    \A p, q \in DOMAIN hist.order :
      (p < q /\ ~ParseOK(ReplayedStamp(p)) /\ ~ParseOK(ReplayedStamp(q))) =>
        hist.order[p] < hist.order[q]

\* A later event, one with an unparseable timestamp, then an earlier event:
\* the log is replayed as it stands.
LaterReplayedBeforeEarlier ==
  /\ hist.ran
  /\ Len(log) = 3
  /\ hist.order = <<1, 2, 3>>
  /\ ~ParseOK(ReplayedStamp(2))
  /\ ParseOK(ReplayedStamp(3))
  /\ ParseTime(ReplayedStamp(3)) < ParseTime(ReplayedStamp(1))

(***************************************************************************)
(* Renames, creates and dependencies: logs of up to MaxLog + 1 events of   *)
(* one timestamp, replayed in file order into a fresh cache.               *)
(***************************************************************************)
RenameShapes ==
  {NewCreateEvent(<<1>>, "t", "", "task", 1, 2),
   NewCreateEvent(<<2>>, "t", "", "task", 1, 2),
   NewRenameEvent(<<1>>, <<2>>, 1),
   NewRenameEvent(<<2>>, <<1>>, 1),
   NewRenameEvent(<<2>>, <<3>>, 1),
   NewRenameEvent(<<3>>, <<1>>, 1),
   NewDepAddEvent(<<1>>, <<2>>, DepTypeBlocks, 1),
   NewDepAddEvent(<<1>>, <<1>>, DepTypeParentChild, 1)}

InitRename ==
  /\ log \in SeqsUpTo({Marshal(e) : e \in RenameShapes}, MaxLog + 1)
  /\ logMtime = 1
  /\ cache = NoCache
  /\ clock = 1
  /\ pc = [p \in Procs |-> Idle]
  /\ tree = NoTree
  /\ hist = NoHist

SpecRename == InitRename /\ [][RebuildOp]_vars

\* The rebuild ran and returned no error.
Rebuilt == hist.ran /\ hist.err = NoErr

\* C36: after a successful rebuild no issue row's id is a rename source:
\* every row's id resolves to itself, and get_issue of it finds that row.
C36_RowIDsCanonical ==
  Rebuilt =>
    \A id \in DOMAIN cache.tables.issues :
      /\ id \notin DOMAIN cache.tables.renames
      /\ resolveIssueID(cache.tables, id) = [id |-> id, err |-> NoErr]
      /\ GetIssue(cache.tables, id) = [id |-> id, err |-> NoErr]

\* The log create 1, rename 1 to 2, create 1 rebuilds without error, and
\* leaves a row 1 that get_issue cannot find.
ShadowRow ==
  /\ Rebuilt
  /\ Len(log) = 3
  /\ DOMAIN cache.tables.issues = {<<1>>, <<2>>}
  /\ GetIssue(cache.tables, <<1>>).id = <<2>>

\* C37: after a successful rebuild both ends of every deps row are ids of
\* issue rows, renames of either end included.
C37_DepsNeverDangle ==
  Rebuilt =>
    \A d \in cache.tables.deps :
      d[1] \in DOMAIN cache.tables.issues /\ d[2] \in DOMAIN cache.tables.issues

\* A dependency whose far end was renamed after the dependency was added.
C37_Witness ==
  /\ Rebuilt
  /\ cache.tables.deps = {<<<<1>>, <<3>>, DepTypeBlocks>>}
  /\ cache.tables.renames = Put(EmptyRenames, <<2>>, <<3>>)

\* A dependency of an issue on itself, both ends renamed.
C37_WitnessBothEnds ==
  /\ Rebuilt
  /\ cache.tables.deps = {<<<<2>>, <<2>>, DepTypeParentChild>>}
  /\ <<1>> \in DOMAIN cache.tables.renames

\* The ids n renames away from id, for n >= 1.
RECURSIVE RenamedTo(_, _)
RenamedTo(id, n) ==
  IF id \notin DOMAIN cache.tables.renames \/ n = 0 THEN {}
  ELSE {cache.tables.renames[id]} \cup RenamedTo(cache.tables.renames[id], n - 1)

\* C38: after a successful rebuild the renames table has no cycle, every
\* rename source resolves, without error, to the id of an issue row, and
\* resolve reports no cycle for any id.
C38_RenamesAcyclicGrounded ==
  Rebuilt =>
    /\ \A id \in DOMAIN cache.tables.renames :
         /\ id \notin RenamedTo(id, Cardinality(DOMAIN cache.tables.renames))
         /\ resolveIssueID(cache.tables, id).err = NoErr
         /\ resolveIssueID(cache.tables, id).id \in DOMAIN cache.tables.issues
    /\ \A id \in {<<1>>, <<2>>, <<3>>} : resolveIssueID(cache.tables, id).err = NoErr

\* A chain of two renames: 1 to 2, then 2 to 3.
C38_Witness ==
  /\ Rebuilt
  /\ cache.tables.renames = Put(Put(EmptyRenames, <<1>>, <<2>>), <<2>>, <<3>>)
  /\ DOMAIN cache.tables.issues = {<<3>>}

\* The rename back to the old id is refused: the rebuild fails at it.
C38_WitnessRefused ==
  /\ hist.ran
  /\ hist.err = "rename target already mapped"
  /\ hist.at = 3
  /\ Replayed(log)[3] = NewRenameEvent(<<2>>, <<1>>, 1)

(***************************************************************************)
(* The two readers of events.jsonl: readEvents (events.go), which skips    *)
(* the lines of length 0, and readEventLog (part_008), which trims each    *)
(* line first and keeps its line number.                                   *)
(***************************************************************************)
RECURSIVE readEventLogFrom(_, _, _)
readEventLogFrom(lines, lineNumber, acc) ==
  IF lineNumber > Len(lines) THEN [entries |-> acc, err |-> NoErr]
  ELSE IF lines[lineNumber].kind \in {"empty", "space"}
  THEN readEventLogFrom(lines, lineNumber + 1, acc)
  ELSE IF lines[lineNumber].kind # "json"
  THEN [entries |-> <<>>, err |-> "parse event line"]
  ELSE readEventLogFrom(lines, lineNumber + 1,
                        Append(acc, [Line |-> lineNumber,
                                     Event |-> lines[lineNumber].event]))

readEventLog(lines) == readEventLogFrom(lines, 1, <<>>)

LoadEventLog(lines) == readEventLog(lines)

ReaderLines ==
  {Marshal(NewCreateEvent(<<1>>, "t", "", "task", 1, 2)),
   Marshal(NewCloseEvent(<<1>>, 3)),
   EmptyLine, SpaceLine, BadLine}

InitReaders ==
  /\ log \in SeqsUpTo(ReaderLines, MaxLog)
  /\ logMtime = 1
  /\ cache = NoCache
  /\ clock = 1
  /\ pc = [p \in Procs |-> Idle]
  /\ tree = NoTree
  /\ hist = NoHist

\* Invocation 1 reads the log as RebuildCache does.
ReadEvents ==
  /\ pc[1].op = "idle"
  /\ pc' = [pc EXCEPT ![1] = [Idle EXCEPT !.op = "LoadEvents",
                                           !.events = LoadEvents(log).events,
                                           !.err = LoadEvents(log).err]]
  /\ UNCHANGED <<log, logMtime, cache, clock, tree, hist>>

\* Invocation 2 reads the log as the log view does.
ReadEventLog ==
  /\ pc[2].op = "idle"
  /\ pc' = [pc EXCEPT ![2] = [Idle EXCEPT !.op = "LoadEventLog",
                                           !.events = LoadEventLog(log).entries,
                                           !.err = LoadEventLog(log).err]]
  /\ UNCHANGED <<log, logMtime, cache, clock, tree, hist>>

NextReaders == ReadEvents \/ ReadEventLog

SpecReaders == InitReaders /\ [][NextReaders]_vars

BothRead == pc[1].op = "LoadEvents" /\ pc[2].op = "LoadEventLog"

\* C39: on every log, lines that are empty, blank or malformed included,
\* LoadEvents and LoadEventLog both fail or both return the same sequence
\* of events.
C39_ReadersAgree ==
  BothRead =>
    /\ (pc[1].err = NoErr) <=> (pc[2].err = NoErr)
    /\ pc[1].err = NoErr =>
         pc[1].events = [i \in 1..Len(pc[2].events) |-> pc[2].events[i].Event]

\* What does hold: whenever LoadEvents returns, LoadEventLog returns the
\* same events; and both skip the lines of length 0.
ReadersAgreeWhenLoaded ==
  BothRead =>
    /\ pc[1].err = NoErr => pc[2].err = NoErr
    /\ pc[1].err = NoErr =>
         pc[1].events = [i \in 1..Len(pc[2].events) |-> pc[2].events[i].Event]

\* A log with a line of blanks and no malformed line: LoadEvents fails and
\* LoadEventLog returns the events.
BlankLineSplitsReaders ==
  /\ BothRead
  /\ \E i \in DOMAIN log : log[i] = SpaceLine
  /\ pc[1].err = "parse event"
  /\ pc[2].err = NoErr
  /\ Len(pc[2].events) = 2

(***************************************************************************)
(* pb update from start to exit: the checks of the flags, GetIssue with    *)
(* its EnsureCache, the AppendEvent calls and the RebuildCache that ends   *)
(* the command.                                                            *)
(***************************************************************************)
\* The command once runUpdate's appends ended with `out`, on the cache
\* EnsureCache left.
updateEnded(lines, ensured, out, now) ==
  IF out.err # NoErr
  THEN [log |-> lines \o Marshalled(out.events), cache |-> ensured.cache,
        events |-> out.events, err |-> out.err, rebuilt |-> FALSE]
  ELSE [log |-> lines \o Marshalled(out.events),
        cache |-> RebuildCache(lines \o Marshalled(out.events), ensured.cache, now).cache,
        events |-> out.events,
        err |-> RebuildCache(lines \o Marshalled(out.events), ensured.cache, now).err,
        rebuilt |-> TRUE]

\* The command once EnsureCache returned `ensured`.
updateEnsured(lines, ensured, now, id, status, issueType, description, priority) ==
  updateEnded(lines, ensured,
              IF ensured.err # NoErr THEN Exit(ensured.err)
              ELSE runUpdate(ensured.cache.tables, id, status, issueType, description,
                             priority, NowTimestamp(now)),
              now)

pbUpdate(lines, mtime, c, now, id, status, issueType, description, priority) ==
  IF updateFlagsError(status, issueType, description, priority) # NoErr
  THEN [log |-> lines, cache |-> c, events |-> <<>>,
        err |-> updateFlagsError(status, issueType, description, priority),
        rebuilt |-> FALSE]
  ELSE updateEnsured(lines, EnsureCache(lines, mtime, c, now), now, id, status,
                     issueType, description, priority)

UpdateLogs ==
  {<<>>,
   <<Marshal(NewCreateEvent(<<1>>, "t", "", "task", 1, 2))>>,
   <<Marshal(NewCreateEvent(<<1>>, "t", "", "task", 1, 2)),
     Marshal(NewRenameEvent(<<1>>, <<2>>, 1))>>}

InitUpdate ==
  /\ log \in UpdateLogs
  /\ logMtime = 1
  /\ cache = NoCache
  /\ clock = 2
  /\ pc = [p \in Procs |-> Idle]
  /\ tree = NoTree
  /\ hist = NoHist

\* One run of pb update; pc[1] keeps the flags, the events the run appended
\* and the error it exited with, hist whether it reached RebuildCache.
PbUpdate ==
  \E id \in {<<1>>, <<3>>},
     status \in {"", StatusClosed, "bogus"},
     issueType \in {Unset, SetTo("bug"), SetTo(" ")},
     description \in {Unset, SetTo("d")},
     priority \in {Unset, SetTo("P1"), SetTo("P9"), SetTo("abc"), SetTo("")} :
    /\ pc[1].op = "idle"
    /\ log' = pbUpdate(log, logMtime, cache, clock, id, status, issueType,
                       description, priority).log
    /\ logMtime' = IF log' = log THEN logMtime ELSE clock
    /\ cache' = pbUpdate(log, logMtime, cache, clock, id, status, issueType,
                         description, priority).cache
    /\ pc' = [pc EXCEPT ![1] =
                [Idle EXCEPT
                   !.op = "update",
                   !.queue = <<id, status, issueType, description, priority>>,
                   !.events = pbUpdate(log, logMtime, cache, clock, id, status,
                                       issueType, description, priority).events,
                   !.err = pbUpdate(log, logMtime, cache, clock, id, status,
                                    issueType, description, priority).err]]
    /\ hist' = [hist EXCEPT
                  !.ran = pbUpdate(log, logMtime, cache, clock, id, status, issueType,
                                   description, priority).rebuilt,
                  !.written = log]
    /\ UNCHANGED <<clock, tree>>

SpecUpdate == InitUpdate /\ [][PbUpdate]_vars

\* The events a run with these flags is to append.
UpdateEvents(flags) ==
  (IF flags[2] \in {"", " "} THEN 0 ELSE 1)
  + (IF flags[3].set \/ flags[4].set \/ flags[5].set THEN 1 ELSE 0)

\* C40: a run of pb update that exits with an error appended no event; a
\* run that succeeds appended all its events and rebuilt the cache before
\* it returned.
C40_UpdateAllOrNothing ==
  pc[1].op = "update" =>
    /\ pc[1].err # NoErr => log = hist.written
    /\ pc[1].err = NoErr =>
         /\ Len(log) = Len(hist.written) + UpdateEvents(pc[1].queue)
         /\ SubSeq(log, 1, Len(hist.written)) = hist.written
         /\ hist.ran
         /\ cache.tables = Project(log).cache.tables

\* What does hold: a run that succeeds appended all its events and rebuilt
\* the cache, and a run that fails appended at most the status event.
UpdateSucceedsWhole ==
  pc[1].op = "update" =>
    /\ pc[1].err # NoErr =>
         \/ log = hist.written
         \/ /\ Len(log) = Len(hist.written) + 1
            /\ log[Len(log)].event.Type = EventTypeStatus
            /\ pc[1].queue[5].set
    /\ pc[1].err = NoErr =>
         /\ Len(log) = Len(hist.written) + UpdateEvents(pc[1].queue)
         /\ hist.ran
         /\ cache.tables = Project(log).cache.tables

\* pb update 1 --status closed --priority P9 exits with the error of
\* ParsePriority after the status event was appended.
StatusAppendedBeforeExit ==
  /\ pc[1].op = "update"
  /\ pc[1].queue[2] = StatusClosed
  /\ pc[1].queue[5] = SetTo("P9")
  /\ pc[1].err = "priority must be P0-P4"
  /\ Len(log) = Len(hist.written) + 1

=============================================================================
